---- MODULE Spec2Model ----
(***************************************************************************)
(* Voice Order System: correlation cache of the SynthFlow webhooks         *)
(* (routes/webhook.py), phone normalisation (utils/helpers.py,             *)
(* services/restaurant_service.py), the order lifecycle and the prices of  *)
(* voice and self-service orders (services/order_service.py,               *)
(* services/menu_service.py, routes/orders.py).                            *)
(*                                                                         *)
(* Amounts of money are integers in cents where the store keeps them       *)
(* (DECIMAL(10,2) columns) and binary64 floats where Python computes with  *)
(* them.                                                                   *)
(*                                                                         *)
(* Strings that the code inspects character by character (phone numbers,  *)
(* action URLs) are sequences of one-character strings.  A Python dict is  *)
(* a function whose DOMAIN is its key set.  An absent / None / "" value is *)
(* the empty sequence.                                                     *)
(*                                                                         *)
(* A handler is one action where its requests are handled one after the    *)
(* other, and one action per call of the store or of an adapter where the  *)
(* interleaving of two requests or the wait for a gateway matters          *)
(* (variable inflight).                                                    *)
(***************************************************************************)
EXTENDS Integers, Sequences, FiniteSets, TLC

(***************************************************************************)
(* Bounds of the model                                                     *)
(***************************************************************************)
\* seconds that pass in one step of the clock
TickSeconds == 3600
\* number of clock steps
MaxTicks == 2
\* number of rows of the table orders
MaxOrders == 2
\* number of rows of the status history
MaxHistory == 4

(***************************************************************************)
(* Program constants                                                       *)
(***************************************************************************)
CACHE_EXPIRY_SECONDS == 3600

Digits == {"0", "1", "2", "3", "4", "5", "6", "7", "8", "9"}

(***************************************************************************)
(* Python helpers                                                          *)
(***************************************************************************)
\* x = v; F(x): the value of a local variable is computed once, where it
\* is assigned
With(v, F(_)) == CHOOSE out \in {F(x) : x \in {v}} : TRUE

(***************************************************************************)
(* Python floats (IEEE-754 binary64), as far as the prices need them.      *)
(* A natural number is the sequence of its digits in base Base, the least  *)
(* significant first, without leading zero digits: a binary64 significand  *)
(* of 53 bits does not fit the integers of the model checker.              *)
(***************************************************************************)
Base == 2^15

RECURSIVE BNorm(_)
BNorm(a) == IF a # <<>> /\ a[Len(a)] = 0 THEN BNorm(SubSeq(a, 1, Len(a) - 1))
            ELSE a

RECURSIVE BFromInt(_)
BFromInt(n) == IF n = 0 THEN <<>> ELSE <<n % Base>> \o BFromInt(n \div Base)

RECURSIVE BToInt(_)
BToInt(a) == IF a = <<>> THEN 0 ELSE Head(a) + Base * BToInt(Tail(a))

RECURSIVE BAddC(_, _, _)
BAddC(a, b, carry) ==
    IF a = <<>> /\ b = <<>> THEN (IF carry = 0 THEN <<>> ELSE <<carry>>)
    ELSE LET x == (IF a = <<>> THEN 0 ELSE Head(a))
                  + (IF b = <<>> THEN 0 ELSE Head(b)) + carry
         IN  <<x % Base>> \o BAddC(IF a = <<>> THEN <<>> ELSE Tail(a),
                                   IF b = <<>> THEN <<>> ELSE Tail(b),
                                   x \div Base)

BAdd(a, b) == BAddC(a, b, 0)

\* a - b for a >= b
RECURSIVE BSubC(_, _, _)
BSubC(a, b, borrow) ==
    IF a = <<>> THEN <<>>
    ELSE LET x == Head(a) - (IF b = <<>> THEN 0 ELSE Head(b)) - borrow
         IN  <<IF x < 0 THEN x + Base ELSE x>>
                \o BSubC(Tail(a), IF b = <<>> THEN <<>> ELSE Tail(b),
                         IF x < 0 THEN 1 ELSE 0)

BSub(a, b) == BNorm(BSubC(a, b, 0))

\* -1, 0, 1 as a < b, a = b, a > b
RECURSIVE BCmpFrom(_, _, _)
BCmpFrom(a, b, i) ==
    IF i = 0 THEN 0
    ELSE IF a[i] < b[i] THEN -1
    ELSE IF a[i] > b[i] THEN 1
    ELSE BCmpFrom(a, b, i - 1)

BCmp(a, b) ==
    IF Len(a) < Len(b) THEN -1
    ELSE IF Len(a) > Len(b) THEN 1
    ELSE BCmpFrom(a, b, Len(a))

\* a * k + carry for a digit k
RECURSIVE BMulSmall(_, _, _)
BMulSmall(a, k, carry) ==
    IF a = <<>> THEN (IF carry = 0 THEN <<>> ELSE <<carry>>)
    ELSE LET x == Head(a) * k + carry
         IN  <<x % Base>> \o BMulSmall(Tail(a), k, x \div Base)

\* a * Base^w
RECURSIVE BShiftDigits(_, _)
BShiftDigits(a, w) ==
    IF a = <<>> \/ w = 0 THEN a ELSE <<0>> \o BShiftDigits(a, w - 1)

RECURSIVE BMul(_, _)
BMul(a, b) ==
    IF a = <<>> \/ b = <<>> THEN <<>>
    ELSE With(BMul(a, Tail(b)), LAMBDA rest :
            BAdd(BNorm(BMulSmall(a, Head(b), 0)), BShiftDigits(rest, 1)))

\* the remainder by d, 0 < d < Base, of the digits of a from the i-th up
RECURSIVE BRemFrom(_, _, _)
BRemFrom(a, d, i) ==
    IF i > Len(a) THEN 0 ELSE (BRemFrom(a, d, i + 1) * Base + a[i]) % d

\* quotient and remainder of a by d (long division, a digit at a time)
BDivSmall(a, d) ==
    [q |-> BNorm([i \in 1..Len(a) |->
                    (BRemFrom(a, d, i + 1) * Base + a[i]) \div d]),
     r |-> BRemFrom(a, d, 1)]

RECURSIVE BitsOf(_)
BitsOf(n) == IF n = 0 THEN 0 ELSE 1 + BitsOf(n \div 2)

BitLen(a) == IF a = <<>> THEN 0 ELSE 15 * (Len(a) - 1) + BitsOf(a[Len(a)])

\* a * 2^k and a div 2^k
BShl(a, k) == BShiftDigits(BNorm(BMulSmall(a, 2^(k % 15), 0)), k \div 15)

BShr(a, k) ==
    IF k \div 15 >= Len(a) THEN <<>>
    ELSE BDivSmall(SubSeq(a, k \div 15 + 1, Len(a)), 2^(k % 15)).q

BOdd(a) == a # <<>> /\ Head(a) % 2 = 1

\* a / 2^k rounded to the nearest natural number, a tie to the even one
BShrNearestEven(a, k) ==
    IF k = 0 THEN a
    ELSE With(BShr(a, k), LAMBDA q :
         With(BCmp(BSub(a, BShl(q, k)), BShl(<<1>>, k - 1)), LAMBDA half :
            IF half > 0 \/ (half = 0 /\ BOdd(q)) THEN BAdd(q, <<1>>) ELSE q))

\* A float is neg, m, e with the value (-1)^neg * m * 2^e; m has at most 53
\* bits.  RoundToFloat rounds an exact value to the nearest float, a tie to
\* the even significand (the prices are far from overflow and underflow).
RoundToFloat(neg, exact, e) ==
    With(exact, LAMBDA m :
        IF m = <<>> THEN [neg |-> FALSE, m |-> <<>>, e |-> 0]
        ELSE IF BitLen(m) <= 53 THEN [neg |-> neg, m |-> m, e |-> e]
        ELSE [neg |-> neg, m |-> BShrNearestEven(m, BitLen(m) - 53),
              e |-> e + BitLen(m) - 53])

Abs(n) == IF n < 0 THEN 0 - n ELSE n

\* float(n) of an int
FloatOfInt(n) == RoundToFloat(n < 0, BFromInt(Abs(n)), 0)

\* the float nearest to n / d, as json.loads and float() read the decimal
\* n / d of a NUMERIC column (d = 100 or 10000): the quotient is taken with
\* 70 more bits and a sticky bit for the remainder, then rounded
FloatOfDecimal(n, d) ==
    With(BDivSmall(BShl(BFromInt(Abs(n)), 70), d), LAMBDA res :
        RoundToFloat(n < 0,
                     BAdd(BShl(res.q, 1), IF res.r = 0 THEN <<>> ELSE <<1>>),
                     0 - 71))

\* x * y
FloatMul(a, b) ==
    With(a, LAMBDA x : With(b, LAMBDA y :
        RoundToFloat(x.neg # y.neg, BMul(x.m, y.m), x.e + y.e)))

\* x + y
FloatAdd(a, b) ==
    With(a, LAMBDA x : With(b, LAMBDA y :
        LET e  == IF x.e < y.e THEN x.e ELSE y.e
            xm == BShl(x.m, x.e - e)
            ym == BShl(y.m, y.e - e)
        IN  IF x.neg = y.neg THEN RoundToFloat(x.neg, BAdd(xm, ym), e)
            ELSE IF BCmp(xm, ym) >= 0 THEN RoundToFloat(x.neg, BSub(xm, ym), e)
            ELSE RoundToFloat(y.neg, BSub(ym, xm), e)))

\* round(x, 2) in cents: the multiple of 0.01 nearest to the exact value of
\* x, a tie to the even one
Round2(a) ==
    With(a, LAMBDA x :
    With(IF x.e >= 0 THEN BShl(BMulSmall(x.m, 100, 0), x.e)
         ELSE BShrNearestEven(BNorm(BMulSmall(x.m, 100, 0)), 0 - x.e), LAMBDA c :
        IF x.neg THEN 0 - BToInt(c) ELSE BToInt(c)))

(***************************************************************************)
(* String helpers (Python str methods used by the code)                    *)
(***************************************************************************)
\* str.replace(c, "") for every c in cs
RECURSIVE RemoveChars(_, _)
RemoveChars(s, cs) ==
    IF s = <<>> THEN <<>>
    ELSE IF Head(s) \in cs THEN RemoveChars(Tail(s), cs)
         ELSE <<Head(s)>> \o RemoveChars(Tail(s), cs)

\* str.strip() on the alphabet of the model (the only whitespace is " ")
RECURSIVE LStrip(_)
LStrip(s) == IF s # <<>> /\ Head(s) = " " THEN LStrip(Tail(s)) ELSE s

RECURSIVE RStrip(_)
RStrip(s) ==
    IF s # <<>> /\ s[Len(s)] = " " THEN RStrip(SubSeq(s, 1, Len(s) - 1)) ELSE s

Strip(s) == RStrip(LStrip(s))

\* str.startswith(p)
StartsWith(s, p) == Len(s) >= Len(p) /\ SubSeq(s, 1, Len(p)) = p

\* str.isdigit(): non-empty and every character a digit
IsDigit(s) == s # <<>> /\ \A i \in 1..Len(s) : s[i] \in Digits

\* ''.join(filter(str.isdigit, s))
RECURSIVE DigitsOnly(_)
DigitsOnly(s) ==
    IF s = <<>> THEN <<>>
    ELSE IF Head(s) \in Digits THEN <<Head(s)>> \o DigitsOnly(Tail(s))
         ELSE DigitsOnly(Tail(s))

\* s[n:]
DropFirst(s, n) == SubSeq(s, n + 1, Len(s))

\* s[-n:]
LastN(s, n) == SubSeq(s, Len(s) - n + 1, Len(s))

\* index of the first occurrence of p in s, 0 when there is none
RECURSIVE FindFrom(_, _, _)
FindFrom(s, p, i) ==
    IF i + Len(p) - 1 > Len(s) THEN 0
    ELSE IF SubSeq(s, i, i + Len(p) - 1) = p THEN i
         ELSE FindFrom(s, p, i + 1)

Find(s, p) == FindFrom(s, p, 1)

\* s.split(p)[0]
SplitHead(s, p) ==
    IF Find(s, p) = 0 THEN s ELSE SubSeq(s, 1, Find(s, p) - 1)

\* s.split(p)[1], for a string that contains p
SplitSecond(s, p) == SplitHead(DropFirst(s, Find(s, p) + Len(p) - 1), p)

(***************************************************************************)
(* utils/helpers.py                                                        *)
(***************************************************************************)
\* format_phone_number testing for the +1 prefix before the punctuation is
\* removed, and returning such a number as it came
format_phone_number_PrefixFirst(raw) ==
    IF raw = <<>> THEN <<>>
    ELSE
      LET cleaned == RemoveChars(Strip(raw), {" ", "-", "(", ")"})
          noPlus  == IF StartsWith(cleaned, <<"+">>) THEN DropFirst(cleaned, 1)
                     ELSE cleaned
          phone   == IF StartsWith(noPlus, <<"1">>) /\ Len(noPlus) = 11
                     THEN DropFirst(noPlus, 1) ELSE noPlus
          digits  == DigitsOnly(phone)
      IN  IF StartsWith(Strip(raw), <<"+", "1">>) THEN Strip(raw)
          ELSE IF Len(phone) = 10 /\ IsDigit(phone) THEN <<"+", "1">> \o phone
          ELSE IF Len(phone) = 11 /\ StartsWith(phone, <<"1">>) /\ IsDigit(phone)
               THEN <<"+">> \o phone
          ELSE IF Len(digits) = 10 THEN <<"+", "1">> \o digits
          ELSE IF Len(digits) = 11 /\ StartsWith(digits, <<"1">>)
               THEN <<"+", "1">> \o DropFirst(digits, 1)
          ELSE IF Len(digits) >= 10 THEN <<"+", "1">> \o LastN(digits, 10)
          ELSE IF IsDigit(phone) THEN <<"+", "1">> \o phone
          ELSE phone

format_phone_number(raw) ==
    IF raw = <<>> THEN <<>>
    ELSE
      LET cleaned == RemoveChars(Strip(raw), {" ", "-", "(", ")"})
          noPlus  == IF StartsWith(cleaned, <<"+">>) THEN DropFirst(cleaned, 1)
                     ELSE cleaned
          phone   == IF StartsWith(noPlus, <<"1">>) /\ Len(noPlus) = 11
                     THEN DropFirst(noPlus, 1) ELSE noPlus
          digits  == DigitsOnly(phone)
      IN  IF StartsWith(cleaned, <<"+", "1">>) THEN cleaned
          ELSE IF Len(phone) = 10 /\ IsDigit(phone) THEN <<"+", "1">> \o phone
          ELSE IF Len(phone) = 11 /\ StartsWith(phone, <<"1">>) /\ IsDigit(phone)
               THEN <<"+">> \o phone
          ELSE IF Len(digits) = 10 THEN <<"+", "1">> \o digits
          ELSE IF Len(digits) = 11 /\ StartsWith(digits, <<"1">>)
               THEN <<"+", "1">> \o DropFirst(digits, 1)
          ELSE IF Len(digits) >= 10 THEN <<"+", "1">> \o LastN(digits, 10)
          ELSE IF IsDigit(phone) THEN <<"+", "1">> \o phone
          ELSE phone

(***************************************************************************)
(* services/restaurant_service.py                                          *)
(***************************************************************************)
normalize_phone(phone) ==
    IF phone = <<>> THEN <<>>
    ELSE
      LET normalized == RemoveChars(phone, {" ", "-", "(", ")"})
      IN  IF normalized # <<>> /\ ~StartsWith(normalized, <<"+">>)
          THEN IF Len(normalized) = 10 THEN <<"+", "1">> \o normalized
               ELSE <<"+">> \o normalized
          ELSE normalized

\* rows of the restaurants table (the store is an external collaborator;
\* the rows are fixed while the webhooks run)
PhoneA == <<"+", "1", "9", "1", "7", "5", "5", "5", "0", "1", "0", "0">>
PhoneB == <<"+", "1", "7", "7", "5", "6", "1", "8", "3", "0", "6", "0">>

Restaurants ==
    { [id |-> "rA", name |-> "Golden Wok", phone |-> PhoneA],
      [id |-> "rB", name |-> "Bamboo House", phone |-> PhoneB] }

\* supabase.table("restaurants").select("*").eq("phone", p): the matching rows
RestaurantsWithPhone(p) == {r \in Restaurants : r.phone = p}

\* the restaurant found for a phone, as a sequence of at most one row
\* (<<>> is Python's None)
get_restaurant_by_phone(phone) ==
    LET normalized_phone == normalize_phone(phone)
        exact    == RestaurantsWithPhone(normalized_phone)
        withPlus == IF ~StartsWith(normalized_phone, <<"+">>)
                    THEN RestaurantsWithPhone(<<"+">> \o normalized_phone)
                    ELSE {}
        noPlus   == IF StartsWith(normalized_phone, <<"+">>)
                    THEN RestaurantsWithPhone(DropFirst(normalized_phone, 1))
                    ELSE {}
    IN  IF exact # {} THEN <<CHOOSE r \in exact : TRUE>>
        ELSE IF withPlus # {} THEN <<CHOOSE r \in withPlus : TRUE>>
        ELSE IF noPlus # {} THEN <<CHOOSE r \in noPlus : TRUE>>
        ELSE <<>>

(***************************************************************************)
(* Inputs of the webhooks                                                  *)
(***************************************************************************)
\* correlation keys (call.model_id / call_inbound.model_id)
Keys == {"m1", "m2"}

\* "(917) 555-0100": restaurant rA as the voice agent spells it
ToA == <<"(", "9", "1", "7", ")", " ", "5", "5", "5", "-", "0", "1", "0", "0">>
\* a phone no restaurant is onboarded with
ToUnknown == <<"2", "1", "2", "5", "5", "5", "0", "1", "9", "9">>
\* "17756183060": restaurant rB with the trunk digit and no +
LeadB == <<"1", "7", "7", "5", "6", "1", "8", "3", "0", "6", "0">>
\* "m?phone=+17756183060&v=1": the URL of a get_menu custom action
UrlB == <<"m", "?", "p", "h", "o", "n", "e", "=">> \o PhoneB \o <<"&", "v", "=", "1">>

PhoneParam == <<"p", "h", "o", "n", "e", "=">>

\* to_number of an inbound-call event
InboundNumbers == {<<>>, ToA, LeadB, ToUnknown}
\* model_id of an inbound-call event ("" is a missing model_id)
InboundKeys == Keys \cup {""}

\* call.to / call.to_number of a completed-call event
ToNumbers == {<<>>, ToA, ToUnknown}
\* executed_actions of a completed-call event, in dict order
ActionLogs == { <<>>, <<[name |-> "get_menu", url |-> UrlB]>> }
\* lead.phone_number of a completed-call event
LeadNumbers == {<<>>, LeadB}

(***************************************************************************)
(* routes/webhook.py: the correlation cache                                *)
(***************************************************************************)
\* time.time() at clock step n
Time(n) == n * TickSeconds

\* an entry counted as expired as soon as its age reaches the TTL
IsExpired_AtTTL(entry, t) == t - entry.timestamp >= CACHE_EXPIRY_SECONDS

\* the test of lines 362 and 457
IsExpired(entry, t) == t - entry.timestamp > CACHE_EXPIRY_SECONDS

\* a sweep that removes nothing
clean_expired_cache_Skipped(cache, t) == cache

\* the dict after clean_expired_cache() ran at time t
clean_expired_cache(cache, t) ==
    LET live == {k \in DOMAIN cache : ~IsExpired(cache[k], t)}
    IN  [k \in live |-> cache[k]]

\* the empty dict
EmptyDict == [k \in {} |-> k]

\* an assignment that is lost
DictPut_Lost(cache, k, v) == cache

\* the dict after  cache[k] = v
DictPut(cache, k, v) ==
    [x \in DOMAIN cache \cup {k} |-> IF x = k THEN v ELSE cache[x]]

\* the dict after  del cache[k]
DictDel(cache, k) == [x \in DOMAIN cache \ {k} |-> cache[x]]

\* the entry the handlers store
CacheEntry(phone, restaurant, t) ==
    [restaurant_phone |-> phone, restaurant_id |-> restaurant.id,
     restaurant_name |-> restaurant.name, timestamp |-> t]

\* Option 2 of the fallback: the phone of the first get_menu action whose
\* URL has a phone= parameter (the loop breaks there), "" when there is none
RECURSIVE ActionPhone(_)
ActionPhone(actions) ==
    IF actions = <<>> THEN <<>>
    ELSE IF Head(actions).name = "get_menu" /\ Find(Head(actions).url, PhoneParam) # 0
         THEN SplitHead(SplitHead(SplitSecond(Head(actions).url, PhoneParam),
                                  <<"&">>), <<" ">>)
         ELSE ActionPhone(Tail(actions))

\* the phone number the fallback uses (lines 281-310), "" when no source
\* carries one
FallbackPhone(req) ==
    LET option1 == req.to
        option2 == IF option1 # <<>> THEN option1
                   ELSE ActionPhone(req.executed_actions)
    IN  IF option2 # <<>> THEN option2 ELSE req.lead_phone

\* the fallback storing its phone under the key before the lookup answers
ResolveRestaurant_StoresBeforeLookup(cache, t, req, lookup) ==
    IF req.model_id \notin DOMAIN cache
    THEN With(FallbackPhone(req), LAMBDA phone_number :
         With(format_phone_number(phone_number), LAMBDA phone :
         With(get_restaurant_by_phone(phone), LAMBDA found :
         LET swept == clean_expired_cache(cache, t)
             early == DictPut(swept, req.model_id,
                              CacheEntry(phone, [id |-> "", name |-> ""], t))
         IN  IF phone_number = <<>>
             THEN [code |-> 404, via |-> "none", restaurant_id |-> "",
                   cache |-> swept]
             ELSE IF lookup = "raise" \/ found = <<>>
             THEN [code |-> 404, via |-> "none", restaurant_id |-> "",
                   cache |-> early]
             ELSE [code |-> 200, via |-> "fallback",
                   restaurant_id |-> found[1].id,
                   cache |-> DictPut(swept, req.model_id,
                                     CacheEntry(phone, found[1], t))])))
    ELSE IF IsExpired(cache[req.model_id], t)
         THEN [code |-> 400, via |-> "expired", restaurant_id |-> "",
               cache |-> DictDel(cache, req.model_id)]
         ELSE [code |-> 200, via |-> "cache",
               restaurant_id |-> cache[req.model_id].restaurant_id,
               cache |-> cache]

\* Lines 270-372: how handle_completed_call finds its restaurant.
\* lookup is "ok" or "raise" (the store call of get_restaurant_by_phone).
\* code 200 means the handler goes on to parse the transcript.
ResolveRestaurant(cache, t, req, lookup) ==
    IF req.model_id \notin DOMAIN cache
    THEN With(FallbackPhone(req), LAMBDA phone_number :
         With(format_phone_number(phone_number), LAMBDA phone :
         With(get_restaurant_by_phone(phone), LAMBDA found :
         LET swept == clean_expired_cache(cache, t)
         IN  IF phone_number = <<>> \/ lookup = "raise" \/ found = <<>>
             THEN [code |-> 404, via |-> "none", restaurant_id |-> "",
                   cache |-> swept]
             ELSE [code |-> 200, via |-> "fallback",
                   restaurant_id |-> found[1].id,
                   cache |-> DictPut(swept, req.model_id,
                                     CacheEntry(phone, found[1], t))])))
    ELSE IF IsExpired(cache[req.model_id], t)
         THEN [code |-> 400, via |-> "expired", restaurant_id |-> "",
               cache |-> DictDel(cache, req.model_id)]
         ELSE [code |-> 200, via |-> "cache",
               restaurant_id |-> cache[req.model_id].restaurant_id,
               cache |-> cache]

(***************************************************************************)
(* services/menu_service.py: price lookup by name                          *)
(***************************************************************************)
\* str.lower() on the alphabet of the model
LowerChar(c) ==
    CASE c = "E" -> "e"
      [] c = "R" -> "r"
      [] c = "T" -> "t"
      [] OTHER   -> c

Lower(s) == [i \in 1..Len(s) |-> LowerChar(s[i])]

\* a in b  (Python substring test)
Contains(b, a) == Find(b, a) # 0

NameEggRoll == <<"E", "g", "g", " ", "R", "o", "l", "l">>
NameRoll    == <<"R", "o", "l", "l">>
NameTea     == <<"T", "e", "a">>

NameRice    == <<"R", "i", "c", "e">>
NameEel     == <<"E", "e", "l">>
NameTofu    == <<"T", "o", "f", "u">>
NameTart    == <<"T", "a", "r", "t">>

\* rows of menu_items in the order the store returns them; prices in cents
\* (the column is DECIMAL(10,2)), <<>> is a NULL price
MenuItems ==
    << [id |-> "i1", restaurant_id |-> "rA", name |-> NameEggRoll,
        price |-> <<450>>, is_available |-> TRUE],
       [id |-> "i2", restaurant_id |-> "rA", name |-> NameRoll,
        price |-> <<599>>, is_available |-> TRUE],
       [id |-> "i3", restaurant_id |-> "rB", name |-> NameRoll,
        price |-> <<650>>, is_available |-> TRUE],
       [id |-> "i4", restaurant_id |-> "rB", name |-> NameRice,
        price |-> <<200>>, is_available |-> TRUE],
       [id |-> "i5", restaurant_id |-> "rB", name |-> NameEel,
        price |-> <<230>>, is_available |-> TRUE],
       [id |-> "i6", restaurant_id |-> "rB", name |-> NameTofu,
        price |-> <<510>>, is_available |-> TRUE],
       [id |-> "i7", restaurant_id |-> "rB", name |-> NameTart,
        price |-> <<300>>, is_available |-> FALSE] >>

\* the modifiers linked to a menu item (menu_item_modifiers, menu_modifiers)
\* with their options (modifier_options, by display_order);
\* price_adjustment in cents
MenuModifiers(item_id) ==
    IF item_id = "i6"
    THEN << [name |-> "Size", type |-> "single",
             options |-> << [name |-> "Small", price_adjustment |-> 0 - 50],
                            [name |-> "Large", price_adjustment |-> 100] >>],
            [name |-> "Add-ons", type |-> "multiple",
             options |-> << [name |-> "Sauce", price_adjustment |-> 25],
                            [name |-> "Wasabi", price_adjustment |-> 75] >>] >>
    ELSE <<>>

\* get_menu_item: the row with its modifiers as a sequence of at most one
\* record (<<>> is Python's None)
get_menu_item(item_id) ==
    LET found == SelectSeq(MenuItems, LAMBDA r : r.id = item_id)
    IN  IF found = <<>> THEN <<>>
        ELSE << [id |-> found[1].id, name |-> found[1].name,
                 price |-> found[1].price,
                 is_available |-> found[1].is_available,
                 modifiers |-> MenuModifiers(item_id)] >>

\* first row of items satisfying Match with a non-NULL price, as <<price>>
RECURSIVE FirstPrice(_, _, _)
FirstPrice(items, search_term, exact) ==
    IF items = <<>> THEN <<>>
    ELSE LET n == Lower(Strip(Head(items).name))
             m == IF exact THEN n = search_term
                  ELSE Contains(n, search_term) \/ Contains(search_term, n)
         IN  IF m /\ Head(items).price # <<>> THEN Head(items).price
             ELSE FirstPrice(Tail(items), search_term, exact)

\* get_menu_item_price with one loop that takes the first item matching
\* exactly or as a substring
get_menu_item_price_OneLoop(restaurant_id, item_name) ==
    LET items == SelectSeq(MenuItems,
                     LAMBDA r : r.restaurant_id = restaurant_id /\ r.is_available)
        search_term == Lower(Strip(item_name))
    IN  IF item_name = <<>> \/ Strip(item_name) = <<>> \/ items = <<>> THEN <<>>
        ELSE FirstPrice(items, search_term, FALSE)

\* <<price>> of the item, <<>> when nothing matches (Python's None)
get_menu_item_price(restaurant_id, item_name) ==
    LET items == SelectSeq(MenuItems,
                     LAMBDA r : r.restaurant_id = restaurant_id /\ r.is_available)
        search_term == Lower(Strip(item_name))
    IN  IF item_name = <<>> \/ Strip(item_name) = <<>> \/ items = <<>> THEN <<>>
        ELSE With(FirstPrice(items, search_term, TRUE), LAMBDA exact :
                IF exact # <<>> THEN exact
                ELSE FirstPrice(items, search_term, FALSE))

(***************************************************************************)
(* Output of the transcript parser (services/parser_service.py calls an    *)
(* external LLM; its answer is an input of the model)                      *)
(***************************************************************************)
CustomerPhone == <<"6", "4", "6", "5", "5", "5", "0", "1", "2", "3">>

ParsedOrders ==
    { [customer_phone |-> CustomerPhone, total_amount |-> <<>>,
       special_instructions |-> <<>>,
       items |-> << [item_name |-> <<"r", "o", "l", "l">>, quantity |-> 2,
                     price |-> <<>>],
                    [item_name |-> NameTea, quantity |-> 1, price |-> <<>>] >>],
      [customer_phone |-> <<>>, total_amount |-> <<999>>,
       special_instructions |-> <<"no onions">>,
       items |-> << [item_name |-> NameEggRoll, quantity |-> 1,
                     price |-> <<100>>] >>],
      [customer_phone |-> CustomerPhone, total_amount |-> <<999>>,
       special_instructions |-> <<>>,
       items |-> << [item_name |-> <<" ", "R", "o", "l", "l">>, quantity |-> 1,
                     price |-> <<>>] >>],
      [customer_phone |-> CustomerPhone, total_amount |-> <<>>,
       special_instructions |-> <<>>, items |-> <<>>] }

\* parse_order_data, lines 38-45: the lead's phone wins over the transcript's
WithCustomerPhone(parsed, req) ==
    [parsed EXCEPT !.customer_phone =
        IF req.lead_phone # <<>> THEN req.lead_phone ELSE parsed.customer_phone]

(***************************************************************************)
(* services/order_service.py                                               *)
(***************************************************************************)
\* outcomes of a call of the print adapter and of the SMS adapter
PrintOutcomes == {"ok", "raise"}
SmsOutcomes == {"ok", "fail", "raise"}
\* outcomes of the store while an order is created
StoreOutcomes == {"ok", "order_fail", "items_fail", "history_fail"}

ValidStatuses == {"pending", "preparing", "ready", "completed", "cancelled"}

\* an adapter called without the try/except around it
try_except_Unguarded(outcome) == outcome

\* what the caller of  try: adapter(...) except Exception: logger.error(...)
\* observes for an outcome of the adapter
try_except(outcome) == IF outcome = "raise" THEN "logged" ELSE outcome

\* create_order_items leaving out the items whose price stays unresolved
create_order_items_SkipUnresolved(order_id, items, restaurant_id) ==
    SelectSeq(
        [i \in 1..Len(items) |->
            [order_id  |-> order_id,
             item_name |-> items[i].item_name,
             quantity  |-> items[i].quantity,
             price     |-> IF items[i].price = <<>> /\ restaurant_id # ""
                              /\ items[i].item_name # <<>>
                           THEN get_menu_item_price(restaurant_id, items[i].item_name)
                           ELSE items[i].price]],
        LAMBDA row : row.price # <<>>)

\* the rows create_order_items inserts for an order
create_order_items(order_id, items, restaurant_id) ==
    [i \in 1..Len(items) |->
        [order_id  |-> order_id,
         item_name |-> items[i].item_name,
         quantity  |-> items[i].quantity,
         price     |-> IF items[i].price = <<>> /\ restaurant_id # ""
                          /\ items[i].item_name # <<>>
                       THEN get_menu_item_price(restaurant_id, items[i].item_name)
                       ELSE items[i].price]]

\* the row log_status_change inserts
log_status_change(order_id, status, changed_by) ==
    [order_id |-> order_id, status |-> status, changed_by |-> changed_by]

\* create_order calling the printer before the pending history row is
\* written
create_order_PrintsFirst(st, order_data, restaurant_id, store, printOut, smsOut) ==
    LET order_id == Len(st.orders) + 1
        order == [id |-> order_id,
                  restaurant_id |-> restaurant_id,
                  customer_phone |-> format_phone_number(order_data.customer_phone),
                  status |-> "pending",
                  total_amount |-> order_data.total_amount,
                  special_instructions |-> order_data.special_instructions]
        s1 == [st EXCEPT !.orders = Append(@, order)]
        s2 == [s1 EXCEPT !.order_items =
                  @ \o create_order_items(order_id, order_data.items, restaurant_id)]
        s3 == [s2 EXCEPT !.prints = Append(@, order_id)]
        s4 == [s3 EXCEPT !.history =
                  Append(@, log_status_change(order_id, "pending", "system"))]
        s5 == [s4 EXCEPT !.sms = Append(@, [order_id |-> order_id,
                                             status |-> "pending"])]
    IN  IF store = "order_fail" THEN [raised |-> TRUE, order_id |-> 0, st |-> st]
        ELSE IF store = "items_fail" /\ order_data.items # <<>>
             THEN [raised |-> TRUE, order_id |-> 0, st |-> s1]
        ELSE IF store = "history_fail"
             THEN [raised |-> TRUE, order_id |-> 0, st |-> s3]
        ELSE [raised |-> FALSE, order_id |-> order_id, st |-> s5]

\* create_order on the store st = [orders, order_items, history, prints, sms].
\* The result carries the new store and raised = TRUE when an exception
\* leaves the function.
create_order(st, order_data, restaurant_id, store, printOut, smsOut) ==
    LET order_id == Len(st.orders) + 1
        order == [id |-> order_id,
                  restaurant_id |-> restaurant_id,
                  customer_phone |-> format_phone_number(order_data.customer_phone),
                  status |-> "pending",
                  total_amount |-> order_data.total_amount,
                  special_instructions |-> order_data.special_instructions]
        s1 == [st EXCEPT !.orders = Append(@, order)]
        s2 == [s1 EXCEPT !.order_items =
                  @ \o create_order_items(order_id, order_data.items, restaurant_id)]
        s3 == [s2 EXCEPT !.history =
                  Append(@, log_status_change(order_id, "pending", "system"))]
        s4 == [s3 EXCEPT !.prints = Append(@, order_id)]
        s5 == [s4 EXCEPT !.sms = Append(@, [order_id |-> order_id,
                                             status |-> "pending"])]
    IN  IF store = "order_fail" THEN [raised |-> TRUE, order_id |-> 0, st |-> st]
        ELSE IF store = "items_fail" /\ order_data.items # <<>>
             THEN [raised |-> TRUE, order_id |-> 0, st |-> s1]
        ELSE IF store = "history_fail"
             THEN [raised |-> TRUE, order_id |-> 0, st |-> s2]
        ELSE IF try_except(printOut) = "raise"
             THEN [raised |-> TRUE, order_id |-> 0, st |-> s4]
        ELSE IF try_except(smsOut) = "raise"
             THEN [raised |-> TRUE, order_id |-> 0, st |-> s5]
        ELSE [raised |-> FALSE, order_id |-> order_id, st |-> s5]

\* get_order_by_id(order_id) finds a row
OrderExists(st, order_id) == order_id \in 1..Len(st.orders)

\* update_order_status loading the order before it looks at the status
update_order_status_LoadsFirst(st, order_id, new_status, changed_by, smsOut) ==
    IF ~OrderExists(st, order_id) THEN [exc |-> "Exception", st |-> st]
    ELSE IF new_status \notin ValidStatuses THEN [exc |-> "ValueError", st |-> st]
    ELSE
      LET current_status == st.orders[order_id].status
          s1 == [st EXCEPT !.orders[order_id].status = new_status]
          s2 == [s1 EXCEPT !.history =
                    Append(@, log_status_change(order_id, new_status, changed_by))]
          s3 == [s2 EXCEPT !.sms = Append(@, [order_id |-> order_id,
                                               status |-> new_status])]
      IN  IF current_status # new_status /\ new_status = "ready"
          THEN IF try_except(smsOut) = "raise"
               THEN [exc |-> "Exception", st |-> s3]
               ELSE [exc |-> "none", st |-> s3]
          ELSE [exc |-> "none", st |-> s2]

\* update_order_status on the store st.  exc is the exception that leaves
\* the function: "ValueError", "Exception" or "none".
update_order_status(st, order_id, new_status, changed_by, smsOut) ==
    IF new_status \notin ValidStatuses THEN [exc |-> "ValueError", st |-> st]
    ELSE IF ~OrderExists(st, order_id) THEN [exc |-> "Exception", st |-> st]
    ELSE
      LET current_status == st.orders[order_id].status
          s1 == [st EXCEPT !.orders[order_id].status = new_status]
          s2 == [s1 EXCEPT !.history =
                    Append(@, log_status_change(order_id, new_status, changed_by))]
          s3 == [s2 EXCEPT !.sms = Append(@, [order_id |-> order_id,
                                               status |-> new_status])]
      IN  IF current_status # new_status /\ new_status = "ready"
          THEN IF try_except(smsOut) = "raise"
               THEN [exc |-> "Exception", st |-> s3]
               ELSE [exc |-> "none", st |-> s3]
          ELSE [exc |-> "none", st |-> s2]

\* f"[CANCELLED: {cancellation_reason}]"
CancellationNote(reason) == "[CANCELLED: " \o reason \o "]"

\* the note written in place of the instructions the order had
WithCancellationNote_Replaces(existing_instructions, reason) ==
    <<CancellationNote(reason)>>

\* special_instructions as the sequence of its lines: the text cancel_order
\* writes for a non-empty reason
WithCancellationNote(existing_instructions, reason) ==
    IF existing_instructions # <<>>
    THEN Append(existing_instructions, CancellationNote(reason))
    ELSE <<CancellationNote(reason)>>

\* cancel_order without the test for an order that is already cancelled
cancel_order_AgainCancelled(st, order_id, cancellation_reason, cancelled_by, smsOut) ==
    IF ~OrderExists(st, order_id) THEN [exc |-> "Exception", st |-> st]
    ELSE IF st.orders[order_id].status = "completed"
         THEN [exc |-> "ValueError", st |-> st]
    ELSE
      LET s0 == [st EXCEPT !.orders[order_id].status = "cancelled"]
          s1 == IF cancellation_reason # ""
                THEN [s0 EXCEPT !.orders[order_id].special_instructions =
                        WithCancellationNote(@, cancellation_reason)]
                ELSE s0
          s2 == [s1 EXCEPT !.history =
                    Append(@, log_status_change(order_id, "cancelled", cancelled_by))]
          s3 == [s2 EXCEPT !.sms = Append(@, [order_id |-> order_id,
                                               status |-> "cancelled"])]
      IN  IF try_except(smsOut) = "raise"
          THEN [exc |-> "Exception", st |-> s3]
          ELSE [exc |-> "none", st |-> s3]

\* cancel_order telling the customer only when the order was in the kitchen
cancel_order_QuietWhenPending(st, order_id, cancellation_reason, cancelled_by, smsOut) ==
    IF ~OrderExists(st, order_id) THEN [exc |-> "Exception", st |-> st]
    ELSE IF st.orders[order_id].status = "completed"
         THEN [exc |-> "ValueError", st |-> st]
    ELSE IF st.orders[order_id].status = "cancelled"
         THEN [exc |-> "ValueError", st |-> st]
    ELSE
      LET s0 == [st EXCEPT !.orders[order_id].status = "cancelled"]
          s1 == IF cancellation_reason # ""
                THEN [s0 EXCEPT !.orders[order_id].special_instructions =
                        WithCancellationNote(@, cancellation_reason)]
                ELSE s0
          s2 == [s1 EXCEPT !.history =
                    Append(@, log_status_change(order_id, "cancelled", cancelled_by))]
          s3 == [s2 EXCEPT !.sms = Append(@, [order_id |-> order_id,
                                               status |-> "cancelled"])]
      IN  IF st.orders[order_id].status = "pending" THEN [exc |-> "none", st |-> s2]
          ELSE IF try_except(smsOut) = "raise"
          THEN [exc |-> "Exception", st |-> s3]
          ELSE [exc |-> "none", st |-> s3]

\* cancel_order on the store st
cancel_order(st, order_id, cancellation_reason, cancelled_by, smsOut) ==
    IF ~OrderExists(st, order_id) THEN [exc |-> "Exception", st |-> st]
    ELSE IF st.orders[order_id].status = "completed"
         THEN [exc |-> "ValueError", st |-> st]
    ELSE IF st.orders[order_id].status = "cancelled"
         THEN [exc |-> "ValueError", st |-> st]
    ELSE
      LET s0 == [st EXCEPT !.orders[order_id].status = "cancelled"]
          s1 == IF cancellation_reason # ""
                THEN [s0 EXCEPT !.orders[order_id].special_instructions =
                        WithCancellationNote(@, cancellation_reason)]
                ELSE s0
          s2 == [s1 EXCEPT !.history =
                    Append(@, log_status_change(order_id, "cancelled", cancelled_by))]
          s3 == [s2 EXCEPT !.sms = Append(@, [order_id |-> order_id,
                                               status |-> "cancelled"])]
      IN  IF try_except(smsOut) = "raise"
          THEN [exc |-> "Exception", st |-> s3]
          ELSE [exc |-> "none", st |-> s3]

\* TAX_RATE = 0.0725
TAX_RATE == FloatOfDecimal(725, 10000)

\* a value of modifier_selections: a str or a list of str, the str as the
\* list of itself; a missing key is Python's None
SelStr(name) == [type |-> "str", value |-> <<name>>]
SelList(names) == [type |-> "list", value |-> names]
SelNone == [type |-> "none", value |-> <<>>]

\* modifier_selections.get(modifier_name)
DictGet(modifier_selections, modifier_name) ==
    IF modifier_name \in DOMAIN modifier_selections
    THEN modifier_selections[modifier_name] ELSE SelNone

\* for option in options: if option.get("name") == selected: ... break
\* the adjustment of the first option of that name, <<>> when there is none
RECURSIVE OptionAdjustment(_, _)
OptionAdjustment(options, selected) ==
    IF options = <<>> THEN <<>>
    ELSE IF Head(options).name = selected
         THEN <<Head(options).price_adjustment>>
         ELSE OptionAdjustment(Tail(options), selected)

\* the loop over the selected options leaving after the first of them
AddSelected_FirstOnly(options, selected, total_adjustment) ==
    IF selected = <<>> THEN total_adjustment
    ELSE With(OptionAdjustment(options, Head(selected)), LAMBDA found :
         IF found = <<>> THEN total_adjustment
         ELSE FloatAdd(total_adjustment, FloatOfDecimal(found[1], 100)))

\* for selected_option_name in selected: ... total_adjustment += ...
RECURSIVE AddSelected(_, _, _)
AddSelected(options, selected, total_adjustment) ==
    IF selected = <<>> THEN total_adjustment
    ELSE With(OptionAdjustment(options, Head(selected)), LAMBDA found :
         AddSelected(options, Tail(selected),
                     IF found = <<>> THEN total_adjustment
                     ELSE FloatAdd(total_adjustment, FloatOfDecimal(found[1], 100))))

\* for modifier in modifiers: ...
RECURSIVE AddModifiers(_, _, _)
AddModifiers(modifiers, modifier_selections, total_adjustment) ==
    IF modifiers = <<>> THEN total_adjustment
    ELSE With(Head(modifiers), LAMBDA modifier :
         With(DictGet(modifier_selections, modifier.name), LAMBDA selected :
         AddModifiers(Tail(modifiers), modifier_selections,
            IF selected.value = <<>> \/ selected = SelStr("") THEN total_adjustment
            ELSE IF modifier.type = "single" /\ selected.type = "str"
                 THEN AddSelected(modifier.options, selected.value, total_adjustment)
            ELSE IF modifier.type = "multiple" /\ selected.type = "list"
                 THEN AddSelected(modifier.options, selected.value, total_adjustment)
            ELSE total_adjustment)))

\* the float calculate_modifier_price_adjustment returns
calculate_modifier_price_adjustment(menu_item_id, modifier_selections) ==
    With(get_menu_item(menu_item_id), LAMBDA menu_item :
        IF menu_item = <<>> THEN FloatOfInt(0)
        ELSE AddModifiers(menu_item[1].modifiers, modifier_selections,
                          FloatOfInt(0)))

\* an endpoint that takes the modifier selections only of the items that
\* carry no price of the client
SelfServiceOrderItem_PriceDropsSelections(item) ==
    [menu_item_id |-> item.menu_item_id, quantity |-> item.quantity,
     modifier_selections |-> IF item.price = <<>> THEN item.modifier_selections
                             ELSE EmptyDict]

\* routes/orders.py, lines 135-143: the dict the endpoint builds from an
\* item of the request; a field the request model does not declare, such as
\* a price, is not in it
SelfServiceOrderItem(item) ==
    [menu_item_id |-> item.menu_item_id, quantity |-> item.quantity,
     modifier_selections |-> item.modifier_selections]

\* value of a float in a DECIMAL(10,2) column, in cents
Numeric2(x) == Round2(x)

\* the loop leaving out an item it cannot price instead of raising
RECURSIVE PriceItems_SkipsInvalid(_, _, _)
PriceItems_SkipsInvalid(items, subtotal, order_items_data) ==
    IF items = <<>>
    THEN [exc |-> "none", subtotal |-> subtotal,
          order_items_data |-> order_items_data]
    ELSE
    With(Head(items), LAMBDA item_data :
    With(get_menu_item(item_data.menu_item_id), LAMBDA menu_item :
        IF item_data.menu_item_id = "" \/ menu_item = <<>>
              \/ ~menu_item[1].is_available
        THEN PriceItems_SkipsInvalid(Tail(items), subtotal, order_items_data)
        ELSE
    With(FloatAdd(FloatOfDecimal(menu_item[1].price[1], 100),
                  calculate_modifier_price_adjustment(
                      item_data.menu_item_id, item_data.modifier_selections)),
         LAMBDA item_unit_price :
    With(FloatMul(item_unit_price, FloatOfInt(item_data.quantity)),
         LAMBDA item_total :
        PriceItems_SkipsInvalid(Tail(items), FloatAdd(subtotal, item_total),
                   Append(order_items_data,
                          [item_name |-> menu_item[1].name,
                           quantity  |-> item_data.quantity,
                           price     |-> item_unit_price]))))))

\* the loop of create_self_service_order over the items: exc is the
\* ValueError that ends it, subtotal the float sum, order_items_data the
\* rows prepared
RECURSIVE PriceItems(_, _, _)
PriceItems(items, subtotal, order_items_data) ==
    IF items = <<>>
    THEN [exc |-> "none", subtotal |-> subtotal,
          order_items_data |-> order_items_data]
    ELSE
    With(Head(items), LAMBDA item_data :
    With(get_menu_item(item_data.menu_item_id), LAMBDA menu_item :
        IF item_data.menu_item_id = "" \/ menu_item = <<>>
              \/ ~menu_item[1].is_available
        THEN [exc |-> "ValueError", subtotal |-> subtotal,
              order_items_data |-> order_items_data]
        ELSE
    With(FloatAdd(FloatOfDecimal(menu_item[1].price[1], 100),
                  calculate_modifier_price_adjustment(
                      item_data.menu_item_id, item_data.modifier_selections)),
         LAMBDA item_unit_price :
    With(FloatMul(item_unit_price, FloatOfInt(item_data.quantity)),
         LAMBDA item_total :
        PriceItems(Tail(items), FloatAdd(subtotal, item_total),
                   Append(order_items_data,
                          [item_name |-> menu_item[1].name,
                           quantity  |-> item_data.quantity,
                           price     |-> item_unit_price]))))))

\* the rows create_self_service_order_items inserts for an order
create_self_service_order_items(order_id, items) ==
    [i \in 1..Len(items) |->
        [order_id  |-> order_id,
         item_name |-> items[i].item_name,
         quantity  |-> items[i].quantity,
         price     |-> <<Numeric2(items[i].price)>>]]

\* round(subtotal + subtotal * TAX_RATE, 2), in cents
TotalAmount(subtotal) ==
    Round2(FloatAdd(subtotal, FloatMul(subtotal, TAX_RATE)))

\* create_self_service_order on the store st; exc is the exception that
\* leaves the function: "ValueError", "Exception" or "none"
create_self_service_order(st, order_data, restaurant_id, store, printOut, smsOut) ==
    IF order_data.items = <<>> THEN [exc |-> "ValueError", order_id |-> 0, st |-> st]
    ELSE IF order_data.customer_phone = <<>>
         THEN [exc |-> "ValueError", order_id |-> 0, st |-> st]
    ELSE
    With(PriceItems(order_data.items, FloatOfInt(0), <<>>), LAMBDA priced :
        IF priced.exc # "none" THEN [exc |-> priced.exc, order_id |-> 0, st |-> st]
        ELSE IF store = "order_fail"
             THEN [exc |-> "Exception", order_id |-> 0, st |-> st]
        ELSE
    With(Len(st.orders) + 1, LAMBDA order_id :
    With([st EXCEPT !.orders = Append(@,
            [id |-> order_id,
             restaurant_id |-> restaurant_id,
             customer_phone |-> format_phone_number(order_data.customer_phone),
             status |-> "pending",
             total_amount |-> <<TotalAmount(priced.subtotal)>>,
             special_instructions |-> order_data.special_instructions])],
         LAMBDA s1 :
        IF store = "items_fail"
        THEN [exc |-> "Exception", order_id |-> 0, st |-> s1]
        ELSE IF store = "history_fail"
        THEN [exc |-> "Exception", order_id |-> 0,
              st |-> [s1 EXCEPT !.order_items =
                         @ \o create_self_service_order_items(
                                  order_id, priced.order_items_data)]]
        ELSE
    With([s1 EXCEPT
            !.order_items = @ \o create_self_service_order_items(
                                    order_id, priced.order_items_data),
            !.history = Append(@, log_status_change(order_id, "pending", "system")),
            !.prints = Append(@, order_id)],
         LAMBDA s4 :
    With([s4 EXCEPT !.sms = Append(@, [order_id |-> order_id,
                                       status |-> "pending"])],
         LAMBDA s5 :
        IF try_except(printOut) = "raise"
        THEN [exc |-> "Exception", order_id |-> 0, st |-> s4]
        ELSE IF try_except(smsOut) = "raise"
             THEN [exc |-> "Exception", order_id |-> 0, st |-> s5]
        ELSE [exc |-> "none", order_id |-> order_id, st |-> s5])))))

\* the records logger.error writes in the two try/except blocks around the
\* adapters; a record names the order in its text ("Failed to print order
\* ...", "Error sending Order Received SMS for order ...").  printed and
\* sent tell whether create called the adapter.
AdapterErrors(order_id, printed, printOut, sent, smsOut) ==
    (IF printed /\ printOut = "raise"
     THEN <<[level |-> "error", order_id |-> order_id]>> ELSE <<>>)
    \o (IF sent /\ smsOut = "raise"
        THEN <<[level |-> "error", order_id |-> order_id]>> ELSE <<>>)

\* the record create_self_service_order_endpoint writes for an exception
\* that is not a ValueError: "Error creating self-service order: {e}", the
\* text of the exception and its traceback; it names no order (order_id 0)
EndpointError(exc) ==
    IF exc = "Exception" THEN <<[level |-> "error", order_id |-> 0]>> ELSE <<>>

\* routes/orders.py: the status code the endpoints answer with
StatusCode(exc) ==
    CASE exc = "none"       -> 200
      [] exc = "ValueError" -> 400
      [] OTHER              -> 500

(***************************************************************************)
(* routes/webhook.py: the handlers                                         *)
(***************************************************************************)
\* handle_inbound_call storing the phone under the key before the lookup
\* answers
handle_inbound_call_StoresBeforeLookup(cache, t, model_id, to_number, lookup) ==
    With(format_phone_number(to_number), LAMBDA restaurant_phone :
    With(get_restaurant_by_phone(restaurant_phone), LAMBDA restaurant :
    With(DictPut(cache, model_id,
                 CacheEntry(restaurant_phone, [id |-> "", name |-> ""], t)),
         LAMBDA early :
        IF model_id = "" \/ to_number = <<>>
        THEN [code |-> 400, restaurant_id |-> "", cache |-> cache]
        ELSE IF lookup = "raise"
        THEN [code |-> 500, restaurant_id |-> "", cache |-> early]
        ELSE IF restaurant = <<>>
        THEN [code |-> 404, restaurant_id |-> "", cache |-> early]
        ELSE [code |-> 200, restaurant_id |-> restaurant[1].id,
              cache |-> DictPut(cache, model_id,
                                CacheEntry(restaurant_phone, restaurant[1], t))])))

\* handle_inbound_call at time t.  A missing call_inbound is the event with
\* neither model_id nor to_number.
handle_inbound_call(cache, t, model_id, to_number, lookup) ==
    With(format_phone_number(to_number), LAMBDA restaurant_phone :
    With(get_restaurant_by_phone(restaurant_phone), LAMBDA restaurant :
        IF model_id = "" \/ to_number = <<>>
        THEN [code |-> 400, restaurant_id |-> "", cache |-> cache]
        ELSE IF lookup = "raise"
        THEN [code |-> 500, restaurant_id |-> "", cache |-> cache]
        ELSE IF restaurant = <<>>
        THEN [code |-> 404, restaurant_id |-> "", cache |-> cache]
        ELSE [code |-> 200, restaurant_id |-> restaurant[1].id,
              cache |-> DictPut(cache, model_id,
                                CacheEntry(restaurant_phone, restaurant[1], t))]))

\* the handler leaving the entry in the cache
CleanUpAfterCreate_Never(cache, model_id) == cache

\* lines 389-391: clean up the cache after the order was created
CleanUpAfterCreate(cache, model_id) ==
    IF model_id \in DOMAIN cache THEN DictDel(cache, model_id) ELSE cache

\* what the environment decides while one completed-call event is handled:
\* the store lookup of the fallback, the parser, the store writes and the
\* adapters.  A choice that a failure before it makes irrelevant is fixed.
DefaultParsed == CHOOSE p \in ParsedOrders : p.items = <<>>

Envs ==
    { e \in [lookup : {"ok", "raise"}, parser : {"ok", "raise"},
             parsed : ParsedOrders, store : StoreOutcomes,
             print : PrintOutcomes, sms : SmsOutcomes] :
        /\ e.lookup = "raise" => e.parser = "raise"
        /\ e.parser = "raise" => e.parsed = DefaultParsed
        /\ e.parsed.items = <<>> => e.store = "ok"
        /\ e.parser = "raise" \/ e.parsed.items = <<>> \/ e.store # "ok"
              => e.print = "ok" /\ e.sms = "ok" }

\* the answer of a completed-call event that ends in an HTTPException:
\* the cache is as the lookup res left it, the store is st
HTTPException(res, code, st) ==
    [code |-> code, via |-> res.via, restaurant_id |-> res.restaurant_id,
     cache |-> res.cache, st |-> st, order_id |-> 0]

\* the clean-up done only for an entry the handler found in the cache
handle_completed_call_CleanUpOnHit(cache, st, t, req, env) ==
    With(ResolveRestaurant(cache, t, req, env.lookup), LAMBDA res :
        IF res.code # 200 THEN HTTPException(res, res.code, st)
        ELSE IF env.parser = "raise" THEN HTTPException(res, 500, st)
        ELSE
    With(WithCustomerPhone(env.parsed, req), LAMBDA parsed_order :
        IF parsed_order.customer_phone = <<>> THEN HTTPException(res, 400, st)
        ELSE IF parsed_order.items = <<>> THEN HTTPException(res, 400, st)
        ELSE
    With(create_order(st, parsed_order, res.restaurant_id,
                      env.store, env.print, env.sms), LAMBDA made :
        IF made.raised THEN HTTPException(res, 500, made.st)
        ELSE [code |-> 200, via |-> res.via, restaurant_id |-> res.restaurant_id,
              cache |-> IF res.via = "cache"
                        THEN CleanUpAfterCreate(res.cache, req.model_id)
                        ELSE res.cache,
              st |-> made.st, order_id |-> made.order_id])))

\* the clean-up done before the order is created
handle_completed_call_CleanUpBeforeCreate(cache, st, t, req, env) ==
    With(ResolveRestaurant(cache, t, req, env.lookup), LAMBDA res :
        IF res.code # 200 THEN HTTPException(res, res.code, st)
        ELSE IF env.parser = "raise" THEN HTTPException(res, 500, st)
        ELSE
    With(WithCustomerPhone(env.parsed, req), LAMBDA parsed_order :
        IF parsed_order.customer_phone = <<>> THEN HTTPException(res, 400, st)
        ELSE IF parsed_order.items = <<>> THEN HTTPException(res, 400, st)
        ELSE
    With(create_order(st, parsed_order, res.restaurant_id,
                      env.store, env.print, env.sms), LAMBDA made :
        [code |-> IF made.raised THEN 500 ELSE 200,
         via |-> res.via, restaurant_id |-> res.restaurant_id,
         cache |-> CleanUpAfterCreate(res.cache, req.model_id),
         st |-> made.st, order_id |-> made.order_id])))

\* handle_completed_call behind synthflow_webhook, which turns an exception
\* that is not an HTTPException into a 500
handle_completed_call(cache, st, t, req, env) ==
    With(ResolveRestaurant(cache, t, req, env.lookup), LAMBDA res :
        IF res.code # 200 THEN HTTPException(res, res.code, st)
        ELSE IF env.parser = "raise" THEN HTTPException(res, 500, st)
        ELSE
    With(WithCustomerPhone(env.parsed, req), LAMBDA parsed_order :
        IF parsed_order.customer_phone = <<>> THEN HTTPException(res, 400, st)
        ELSE IF parsed_order.items = <<>> THEN HTTPException(res, 400, st)
        ELSE
    With(create_order(st, parsed_order, res.restaurant_id,
                      env.store, env.print, env.sms), LAMBDA made :
        IF made.raised THEN HTTPException(res, 500, made.st)
        ELSE [code |-> 200, via |-> res.via, restaurant_id |-> res.restaurant_id,
              cache |-> CleanUpAfterCreate(res.cache, req.model_id),
              st |-> made.st, order_id |-> made.order_id])))

(***************************************************************************)
(* State                                                                   *)
(***************************************************************************)
VARIABLES
    now,               \* clock step; time.time() = Time(now)
    restaurant_cache,  \* _restaurant_cache: model_id -> entry
    orders,            \* table orders; the id of a row is its position
    order_items,       \* table order_items
    history,           \* table order_status_history
    prints,            \* calls of the print adapter (order ids)
    sms,               \* calls of the SMS adapter (order id, template)
    last,              \* the request handled last and its answer
    inflight           \* the requests handled call by call: worker -> position

vars == <<now, restaurant_cache, orders, order_items, history, prints, sms, last,
          inflight>>

Store == [orders |-> orders, order_items |-> order_items, history |-> history,
          prints |-> prints, sms |-> sms]

SetStore(st) ==
    /\ orders' = st.orders
    /\ order_items' = st.order_items
    /\ history' = st.history
    /\ prints' = st.prints
    /\ sms' = st.sms

\* last: op is the handler; model_id the correlation key of a webhook
\* event; after tells, for a completed-call event handled right after a
\* completed-call event of the same key that found its restaurant in the
\* cache, whether that one consumed the entry ("consumed") or not ("kept");
\* order_id is the order created or asked for, arg the status asked for
\* (transition) or the reason given (cancel), by the changed_by /
\* cancelled_by of the caller, code the status code of the
\* answer, via how a completed-call event found its restaurant,
\* restaurant_id the restaurant found, print and sms the outcome of the
\* adapters the handler called ("" when it called none), items the line
\* items handed to the function that created the order (<<>> when the
\* request created none), phone the customer phone handed to it, swept
\* the keys whose expired entries a completed-call event removed, logged
\* the records logger.error wrote while a creation request was handled
NoRequest ==
    [op |-> "none", model_id |-> "", after |-> "", order_id |-> 0,
     arg |-> "", by |-> "", code |-> 0, via |-> "", restaurant_id |-> "",
     print |-> "", sms |-> "", items |-> <<>>, phone |-> <<>>, swept |-> {},
     logged |-> <<>>]

\* The server processes that handle a request one call of the store or of
\* an adapter at a time.  uvicorn.run (main.py:64) starts one process, and
\* a deployment may start several; the calls of two processes interleave.
Workers == {"w1", "w2"}

\* a worker that handles no request.  pc is the call the worker makes next
\* or waits for, order_id the order of its request, new_status the status
\* asked for, current_status the status the handler read, code the status
\* code of the answer (0 while there is none)
Idle ==
    [pc |-> "idle", order_id |-> 0, new_status |-> "", current_status |-> "",
     code |-> 0]

Init ==
    /\ now = 0
    /\ restaurant_cache = EmptyDict
    /\ orders = <<>>
    /\ order_items = <<>>
    /\ history = <<>>
    /\ prints = <<>>
    /\ sms = <<>>
    /\ last = NoRequest
    /\ inflight = [w \in Workers |-> Idle]

(***************************************************************************)
(* Actions                                                                 *)
(***************************************************************************)
\* the payloads of a completed-call event
Payloads ==
    [model_id : Keys, to : ToNumbers, executed_actions : ActionLogs,
     lead_phone : LeadNumbers]

\* the clock advances
Tick ==
    /\ now < MaxTicks
    /\ now' = now + 1
    /\ UNCHANGED <<restaurant_cache, orders, order_items, history, prints,
                   sms, last, inflight>>

\* POST /api/webhook/synthflow-inbound
synthflow_inbound_webhook ==
    /\ \E model_id \in InboundKeys, to_number \in InboundNumbers,
          lookup \in {"ok", "raise"} :
         \E r \in {handle_inbound_call(restaurant_cache, Time(now), model_id,
                                       to_number, lookup)} :
             /\ restaurant_cache' = r.cache
             /\ last' = [NoRequest EXCEPT
                           !.op = "inbound", !.model_id = model_id,
                           !.code = r.code, !.restaurant_id = r.restaurant_id]
    /\ UNCHANGED <<now, orders, order_items, history, prints, sms, inflight>>

\* POST /api/webhook/synthflow.  The endpoint awaits nothing but the body of
\* its request and handle_completed_call is synchronous, so the event loop
\* runs the handler of one event to its answer before it starts another:
\* concurrent completed-call events are handled one after the other, in
\* either order.  reqs and envs are the payloads and the environments of
\* the specification.
synthflow_webhook(reqs, envs) ==
    /\ Len(orders) < MaxOrders
    /\ \E req \in reqs, env \in envs :
         \E r \in {handle_completed_call(restaurant_cache, Store, Time(now),
                                         req, env)} :
             /\ restaurant_cache' = r.cache
             /\ SetStore(r.st)
             /\ last' = [NoRequest EXCEPT
                           !.op = "completed", !.model_id = req.model_id,
                           !.after = IF /\ last.op = "completed"
                                        /\ last.via = "cache"
                                        /\ last.model_id = req.model_id
                                     THEN IF last.code = 200 THEN "consumed"
                                          ELSE "kept"
                                     ELSE "",
                           !.order_id = r.order_id, !.code = r.code,
                           !.via = r.via, !.restaurant_id = r.restaurant_id,
                           !.print = IF Len(r.st.prints) > Len(prints)
                                     THEN env.print ELSE "",
                           !.sms = IF Len(r.st.sms) > Len(sms)
                                   THEN env.sms ELSE "",
                           !.items = IF r.code = 200 THEN env.parsed.items
                                     ELSE <<>>,
                           !.phone = IF r.code = 200
                                     THEN WithCustomerPhone(env.parsed, req).customer_phone
                                     ELSE <<>>,
                           !.swept = {k \in DOMAIN restaurant_cache \ DOMAIN r.cache :
                                        IsExpired(restaurant_cache[k], Time(now))},
                           !.logged = AdapterErrors(Len(orders) + 1,
                                         Len(r.st.prints) > Len(prints), env.print,
                                         Len(r.st.sms) > Len(sms), env.sms)]
    /\ UNCHANGED <<now, inflight>>

\* POST /api/orders/{order_id}/status
update_status ==
    /\ Len(history) < MaxHistory
    /\ \E order_id \in 1..(Len(orders) + 1),
          status \in ValidStatuses \cup {"done"}, smsOut \in SmsOutcomes :
         \E r \in {update_order_status(Store, order_id, status, "kds", smsOut)} :
             /\ SetStore(r.st)
             /\ last' = [NoRequest EXCEPT
                           !.op = "transition", !.order_id = order_id,
                           !.arg = status, !.by = "kds",
                           !.code = StatusCode(r.exc),
                           !.sms = IF Len(r.st.sms) > Len(sms) THEN smsOut ELSE ""]
    /\ UNCHANGED <<now, restaurant_cache, inflight>>

\* POST /api/orders/{order_id}/cancel, by an authenticated caller
cancel_order_endpoint ==
    /\ Len(history) < MaxHistory
    /\ \E order_id \in 1..(Len(orders) + 1), reason \in {"", "sold out"},
          cancelled_by \in {"kds", "admin"}, smsOut \in SmsOutcomes :
         \E r \in {cancel_order(Store, order_id, reason, cancelled_by, smsOut)} :
             /\ SetStore(r.st)
             /\ last' = [NoRequest EXCEPT
                           !.op = "cancel", !.order_id = order_id,
                           !.arg = reason, !.by = cancelled_by,
                           !.code = StatusCode(r.exc),
                           !.sms = IF Len(r.st.sms) > Len(sms) THEN smsOut ELSE ""]
    /\ UNCHANGED <<now, restaurant_cache, inflight>>

\* routes/orders.py, lines 132-150: order_data of a request
SelfServiceOrderData(request) ==
    [items |-> [i \in 1..Len(request.items) |->
                   SelfServiceOrderItem(request.items[i])],
     customer_phone |-> request.customer_phone,
     special_instructions |-> request.special_instructions]

\* POST /api/orders/self-service.  reqs and envs are the requests and the
\* environments (outcomes of the store and of the adapters) of the
\* specification.
create_self_service_order_endpoint(reqs, envs) ==
    /\ Len(orders) < MaxOrders
    /\ \E request \in reqs, env \in envs :
         \E r \in {create_self_service_order(
                       Store, SelfServiceOrderData(request),
                       request.restaurant_id, env.store, env.print, env.sms)} :
             /\ SetStore(r.st)
             /\ last' = [NoRequest EXCEPT
                           !.op = "self_service", !.order_id = r.order_id,
                           !.code = StatusCode(r.exc),
                           !.restaurant_id = request.restaurant_id,
                           !.print = IF Len(r.st.prints) > Len(prints)
                                     THEN env.print ELSE "",
                           !.sms = IF Len(r.st.sms) > Len(sms)
                                   THEN env.sms ELSE "",
                           !.items = request.items,
                           !.phone = request.customer_phone,
                           !.logged = AdapterErrors(Len(orders) + 1,
                                         Len(r.st.prints) > Len(prints), env.print,
                                         Len(r.st.sms) > Len(sms), env.sms)
                                      \o EndpointError(r.exc)]
    /\ UNCHANGED <<now, restaurant_cache, inflight>>

\* update_order_status call by call, by worker w.  Lines 425-435: the
\* status is validated and the order is read.
update_order_status_read(w) ==
    /\ inflight[w].pc = "idle"
    /\ \E order_id \in 1..(Len(orders) + 1), new_status \in ValidStatuses :
         inflight' = [inflight EXCEPT ![w] =
            IF ~OrderExists(Store, order_id)
            THEN [Idle EXCEPT !.pc = "done", !.order_id = order_id,
                              !.new_status = new_status,
                              !.code = StatusCode("Exception")]
            ELSE [Idle EXCEPT !.pc = "update", !.order_id = order_id,
                              !.new_status = new_status,
                              !.current_status = orders[order_id].status]]
    /\ UNCHANGED <<now, restaurant_cache, orders, order_items, history, prints,
                   sms, last>>

\* lines 438-444: UPDATE orders SET status = new_status WHERE id = order_id
update_order_status_update(w) ==
    /\ inflight[w].pc = "update"
    /\ orders' = [orders EXCEPT ![inflight[w].order_id].status =
                                    inflight[w].new_status]
    /\ inflight' = [inflight EXCEPT ![w].pc = "log"]
    /\ UNCHANGED <<now, restaurant_cache, order_items, history, prints, sms, last>>

\* the row of the history written only by the worker whose status is still
\* the status of the order
update_order_status_log_IfStillCurrent(w) ==
    /\ inflight[w].pc = "log"
    /\ history' = IF orders[inflight[w].order_id].status = inflight[w].new_status
                  THEN Append(history, log_status_change(inflight[w].order_id,
                                           inflight[w].new_status, "kds"))
                  ELSE history
    /\ inflight' = [inflight EXCEPT ![w].pc = "notify"]
    /\ UNCHANGED <<now, restaurant_cache, orders, order_items, prints, sms, last>>

\* line 447: log_status_change inserts the row of the history
update_order_status_log(w) ==
    /\ inflight[w].pc = "log"
    /\ history' = Append(history, log_status_change(inflight[w].order_id,
                                      inflight[w].new_status, "kds"))
    /\ inflight' = [inflight EXCEPT ![w].pc = "notify"]
    /\ UNCHANGED <<now, restaurant_cache, orders, order_items, prints, sms, last>>

\* lines 452-468: the order is read again, the SMS adapter is called for a
\* change to ready, and the order is returned
update_order_status_notify(w) ==
    /\ inflight[w].pc = "notify"
    /\ sms' = IF /\ inflight[w].current_status # inflight[w].new_status
                 /\ inflight[w].new_status = "ready"
              THEN Append(sms, [order_id |-> inflight[w].order_id,
                                status |-> "ready"])
              ELSE sms
    /\ inflight' = [inflight EXCEPT ![w].pc = "done",
                                    ![w].code = StatusCode("none")]
    /\ UNCHANGED <<now, restaurant_cache, orders, order_items, history, prints,
                   last>>

\* cancel_order call by call, by worker w, without a reason.  Lines
\* 482-495: the order is read and a completed or cancelled one is refused.
cancel_order_read(w) ==
    /\ inflight[w].pc = "idle"
    /\ \E order_id \in 1..(Len(orders) + 1) :
         inflight' = [inflight EXCEPT ![w] =
            IF ~OrderExists(Store, order_id)
            THEN [Idle EXCEPT !.pc = "done", !.order_id = order_id,
                              !.new_status = "cancelled",
                              !.code = StatusCode("Exception")]
            ELSE IF orders[order_id].status \in {"completed", "cancelled"}
            THEN [Idle EXCEPT !.pc = "done", !.order_id = order_id,
                              !.new_status = "cancelled",
                              !.current_status = orders[order_id].status,
                              !.code = StatusCode("ValueError")]
            ELSE [Idle EXCEPT !.pc = "cancel_update", !.order_id = order_id,
                              !.new_status = "cancelled",
                              !.current_status = orders[order_id].status]]
    /\ UNCHANGED <<now, restaurant_cache, orders, order_items, history, prints,
                   sms, last>>

\* lines 497-515: UPDATE orders SET status = 'cancelled' WHERE id = order_id
cancel_order_update(w) ==
    /\ inflight[w].pc = "cancel_update"
    /\ orders' = [orders EXCEPT ![inflight[w].order_id].status = "cancelled"]
    /\ inflight' = [inflight EXCEPT ![w].pc = "cancel_log"]
    /\ UNCHANGED <<now, restaurant_cache, order_items, history, prints, sms, last>>

\* line 518: log_status_change inserts the row of the history
cancel_order_log(w) ==
    /\ inflight[w].pc = "cancel_log"
    /\ history' = Append(history, log_status_change(inflight[w].order_id,
                                      "cancelled", "kds"))
    /\ inflight' = [inflight EXCEPT ![w].pc = "cancel_notify"]
    /\ UNCHANGED <<now, restaurant_cache, orders, order_items, prints, sms, last>>

\* lines 523-537: the order is read again, the cancellation SMS is sent and
\* the order is returned
cancel_order_notify(w) ==
    /\ inflight[w].pc = "cancel_notify"
    /\ sms' = Append(sms, [order_id |-> inflight[w].order_id,
                           status |-> "cancelled"])
    /\ inflight' = [inflight EXCEPT ![w].pc = "done",
                                    ![w].code = StatusCode("none")]
    /\ UNCHANGED <<now, restaurant_cache, orders, order_items, history, prints,
                   last>>

\* create_order call by call, by worker w.  Lines 54-69: the order, its
\* items and the first row of its history are inserted.
create_order_insert(w) ==
    /\ inflight[w].pc = "idle"
    /\ Len(orders) < MaxOrders
    /\ \E parsed \in {p \in ParsedOrders : p.customer_phone # <<>> /\ p.items # <<>>} :
         \E r \in {create_order(Store, parsed, "rA", "ok", "ok", "ok")} :
             /\ orders' = r.st.orders
             /\ order_items' = r.st.order_items
             /\ history' = r.st.history
             /\ inflight' = [inflight EXCEPT ![w] =
                               [Idle EXCEPT !.pc = "print", !.order_id = r.order_id]]
    /\ UNCHANGED <<now, restaurant_cache, prints, sms, last>>

\* line 76: print_order(order_id) is called; the function waits for it
print_order_call(w) ==
    /\ inflight[w].pc = "print"
    /\ prints' = Append(prints, inflight[w].order_id)
    /\ inflight' = [inflight EXCEPT ![w].pc = "printing"]
    /\ UNCHANGED <<now, restaurant_cache, orders, order_items, history, sms, last>>

\* lines 76-81: print_order returns or raises (its HTTP request has
\* timeout=10, printer_service.py:264); both ways the function goes on
print_order_return(w) ==
    /\ inflight[w].pc = "printing"
    /\ inflight' = [inflight EXCEPT ![w].pc = "sms"]
    /\ UNCHANGED <<now, restaurant_cache, orders, order_items, history, prints,
                   sms, last>>

\* line 86: send_order_status_sms(order, "pending") is called; the
\* function waits for it
send_order_status_sms_call(w) ==
    /\ inflight[w].pc = "sms"
    /\ sms' = Append(sms, [order_id |-> inflight[w].order_id, status |-> "pending"])
    /\ inflight' = [inflight EXCEPT ![w].pc = "sending"]
    /\ UNCHANGED <<now, restaurant_cache, orders, order_items, history, prints,
                   last>>

\* lines 87-94: the SMS gateway answered or the call raised; create_order
\* returns the order and the handler answers 200
send_order_status_sms_return(w) ==
    /\ inflight[w].pc = "sending"
    /\ inflight' = [inflight EXCEPT ![w].pc = "done",
                                    ![w].code = StatusCode("none")]
    /\ UNCHANGED <<now, restaurant_cache, orders, order_items, history, prints,
                   sms, last>>

(***************************************************************************)
(* Specifications                                                          *)
(***************************************************************************)
\* The webhooks: inbound-call and completed-call events of every shape.
\* The adapters succeed and the transcript carries no customer phone (the
\* lead's is used).
WebhookEnvs ==
    {e \in Envs : /\ e.print = "ok"
                  /\ e.sms = "ok"
                  /\ e.store = "ok"
                  /\ e.parsed.customer_phone = <<>> \/ e.parsed.items = <<>>}

Next ==
    \/ Tick
    \/ synthflow_inbound_webhook
    \/ synthflow_webhook(Payloads, WebhookEnvs)

Spec == Init /\ [][Next]_vars

\* The order lifecycle: orders come from completed calls that name the
\* restaurant in call.to and whose transcript parses, with item names free
\* of surrounding whitespace; the staff updates and cancels them.
StaffPayloads == {p \in Payloads : /\ p.model_id = "m1" /\ p.to = ToA
                                   /\ p.executed_actions = <<>>
                                   /\ p.lead_phone = <<>>}

TrimmedNames(parsed) ==
    \A i \in 1..Len(parsed.items) :
       Strip(parsed.items[i].item_name) = parsed.items[i].item_name

StaffEnvs == {e \in Envs : /\ e.lookup = "ok" /\ e.parser = "ok"
                           /\ e.parsed.customer_phone # <<>>
                           /\ e.parsed.items # <<>> /\ e.store = "ok"
                           /\ TrimmedNames(e.parsed)}

NextOrders ==
    \/ synthflow_webhook(StaffPayloads, StaffEnvs)
    \/ update_status
    \/ cancel_order_endpoint

SpecOrders == Init /\ [][NextOrders]_vars

\* Creation with a store that may fail: the insert of the order row, the
\* insert of its items after the order row was written, or the insert of
\* the pending history row after both.  The orders that exist can be
\* cancelled.
StoreEnvs == {e \in Envs : /\ e.lookup = "ok" /\ e.parser = "ok"
                           /\ e.parsed.customer_phone # <<>>
                           /\ e.parsed.items # <<>>
                           /\ TrimmedNames(e.parsed)
                           /\ e.print = "ok" /\ e.sms = "ok"}

NextStore ==
    \/ synthflow_webhook(StaffPayloads, StoreEnvs)
    \/ cancel_order_endpoint

SpecStore == Init /\ [][NextStore]_vars

\* Orders taken by voice: completed calls that name the restaurant in
\* call.to or in the URL of a get_menu action, with every transcript that
\* carries items and a customer phone.
VoicePayloads == {p \in Payloads : /\ p.model_id = "m1" /\ p.lead_phone = <<>>
                                   /\ p.to \in {<<>>, ToA}
                                   /\ p.to = ToA \/ p.executed_actions # <<>>}

VoiceEnvs == {e \in Envs : /\ e.lookup = "ok" /\ e.parser = "ok"
                           /\ e.parsed.customer_phone # <<>>
                           /\ e.parsed.items # <<>> /\ e.store = "ok"}

NextVoice == synthflow_webhook(VoicePayloads, VoiceEnvs)

SpecVoice == Init /\ [][NextVoice]_vars

\* Customer phones: completed calls for restaurant rA whose lead carries a
\* North American number in one of the spellings the formatter supports.
NanpNumbers ==
    { <<"6", "4", "6", "5", "5", "5", "0", "1", "2", "3">>,
      <<"2", "1", "2", "5", "5", "5", "0", "1", "9", "9">>,
      <<"9", "1", "7", "1", "1", "1", "1", "1", "1", "1">>,
      <<"8", "0", "0", "2", "0", "0", "0", "0", "0", "1">>,
      <<"3", "1", "1", "9", "8", "7", "6", "5", "4", "3">> }

\* the ten digits bare and grouped 3-3-4 with parentheses, dashes or spaces
Punctuated(n) ==
    LET a == SubSeq(n, 1, 3)
        b == SubSeq(n, 4, 6)
        c == SubSeq(n, 7, 10)
    IN  { n,
          <<"(">> \o a \o <<")", " ">> \o b \o <<"-">> \o c,
          a \o <<"-">> \o b \o <<"-">> \o c,
          a \o <<" ">> \o b \o <<" ">> \o c }

\* ... and each of these after the country code, with or without the +
Spellings(n) ==
    UNION { { p, <<"1">> \o p, <<"1", " ">> \o p, <<"1", "-">> \o p,
              <<"+", "1">> \o p, <<"+", "1", " ">> \o p } : p \in Punctuated(n) }

PhonePayloads ==
    [model_id : {"m1"}, to : {ToA}, executed_actions : {<<>>},
     lead_phone : UNION {Spellings(n) : n \in NanpNumbers}]

PhoneEnvs == {e \in StaffEnvs : e.print = "ok" /\ e.sms = "ok"}

NextPhones == synthflow_webhook(PhonePayloads, PhoneEnvs)

SpecPhones == Init /\ [][NextPhones]_vars

\* Repeated completed calls: events of both keys that carry the restaurant
\* in call.to, in the lead or nowhere, handled while the parser or the
\* store may fail, and repeated later.
RetryPayloads == {p \in Payloads : /\ p.to \in {<<>>, ToA}
                                   /\ p.executed_actions = <<>>}

RetryEnvs == {e \in Envs : /\ e.lookup = "ok"
                           /\ e.print = "ok" /\ e.sms = "ok"
                           /\ e.store # "history_fail"
                           /\ e.parsed.total_amount = <<>>}

NextRetry ==
    \/ Tick
    \/ synthflow_webhook(RetryPayloads, RetryEnvs)

SpecRetry == Init /\ [][NextRetry]_vars

\* Customer phones that are not a North American number: too few digits,
\* letters, dots, an extension, a foreign country code, only a sign or blank.
DialedOddly ==
    { <<"5", "5", "5", "-", "0", "1", "2", "3">>,
      <<"5", "5", "5", "-", "C", "A", "L", "L">>,
      <<"n", "/", "a">>,
      <<"(", "6", "4", "6", ")", " ", "5", "5", "5">>,
      <<"6", "4", "6", ".", "5", "5", "5", ".", "0", "1", "2", "3">>,
      <<"6", "4", "6", "5", "5", "5", "0", "1", "2", "3", "x", "9">>,
      <<"+", "4", "4", " ", "2", "0", " ", "7", "9", "4", "6", " ", "0", "9", "5", "8">>,
      <<"+", "5", "2", " ", "5", "5">>,
      <<"+", "1", "a", "b", "c">>,
      <<"+", "1">>,
      <<"+">>,
      <<"1", "2">>,
      <<" ">> }

DialedPayloads ==
    [model_id : {"m1"}, to : {ToA}, executed_actions : {<<>>},
     lead_phone : DialedOddly]

NextDialed == synthflow_webhook(DialedPayloads, PhoneEnvs)

SpecDialed == Init /\ [][NextDialed]_vars

\* Self-service orders at restaurant rB.  An item of a request is a menu
\* item id, a quantity, the modifier selections and a price the client may
\* have added to it (<<>> when it added none).
Item(menu_item_id, quantity, modifier_selections) ==
    [menu_item_id |-> menu_item_id, quantity |-> quantity,
     modifier_selections |-> modifier_selections, price |-> <<>>]

TofuLarge == Item("i6", 1, "Size" :> SelStr("Large"))
TofuSmallBoth ==
    Item("i6", 2, ("Size" :> SelStr("Small"))
                  @@ ("Add-ons" :> SelList(<<"Sauce", "Wasabi">>)))
\* nothing chosen for Add-ons, an option Size does not have, and a modifier
\* the item does not declare
TofuUnknown ==
    Item("i6", 1, ("Size" :> SelStr("Huge")) @@ ("Spice" :> SelStr("Hot")))
RiceOne == Item("i4", 1, EmptyDict)
EelThree == Item("i5", 3, EmptyDict)
TofuOne == Item("i6", 1, EmptyDict)

Items ==
    { Item("i3", 1, EmptyDict), TofuLarge, TofuSmallBoth, TofuUnknown,
      RiceOne, Item("i4", 3, EmptyDict), EelThree, TofuOne,
      Item("zz", 1, EmptyDict), Item("i7", 1, EmptyDict) }

\* the same item with a price of one cent added by the client
WithClientPrice(item) == [item EXCEPT !.price = <<1>>]

\* every order of the items of s
Orderings(s) ==
    { [i \in 1..Len(s) |-> s[p[i]]] :
        p \in {f \in [1..Len(s) -> 1..Len(s)] :
                  \A i, j \in 1..Len(s) : f[i] = f[j] => i = j} }

\* the carts: one item; one item with a client price; rice, eel and tofu
\* in every order; an item followed by one that is not on the menu
Carts ==
    {<<item>> : item \in Items}
    \cup {<<WithClientPrice(TofuLarge)>>, <<WithClientPrice(TofuSmallBoth)>>}
    \cup Orderings(<<RiceOne, EelThree, TofuOne>>)
    \cup {<<TofuLarge, Item("zz", 1, EmptyDict)>>}

SelfServiceRequests ==
    [restaurant_id : {"rB"}, items : Carts, customer_phone : {CustomerPhone},
     special_instructions : {<<>>}]

SelfServiceEnvs == [store : {"ok"}, print : {"ok"}, sms : {"ok"}]

NextSelfService ==
    create_self_service_order_endpoint(SelfServiceRequests, SelfServiceEnvs)

SpecSelfService == Init /\ [][NextSelfService]_vars

\* Creation on both paths with a store that may fail at each of its three
\* writes: completed calls that name the restaurant in call.to, and
\* self-service requests, valid ones and ones with no item, an empty
\* customer phone, an empty menu_item_id, an unknown or an unavailable menu
\* item, alone or after a valid item.
CreationCarts ==
    { <<>>, <<RiceOne>>, <<RiceOne, EelThree>> }
    \cup { <<item>> : item \in { Item("", 1, EmptyDict), Item("zz", 1, EmptyDict),
                                 Item("i7", 1, EmptyDict) } }
    \cup { <<RiceOne, item>> : item \in { Item("", 1, EmptyDict),
                                          Item("zz", 1, EmptyDict),
                                          Item("i7", 1, EmptyDict) } }

CreationRequests ==
    [restaurant_id : {"rB"}, items : CreationCarts,
     customer_phone : {CustomerPhone, <<>>}, special_instructions : {<<>>}]

CreationEnvs == [store : StoreOutcomes, print : {"ok"}, sms : {"ok"}]

NextCreation ==
    \/ synthflow_webhook(StaffPayloads, StoreEnvs)
    \/ create_self_service_order_endpoint(CreationRequests, CreationEnvs)

SpecCreation == Init /\ [][NextCreation]_vars

\* Self-service requests whose items carry a quantity of zero or less,
\* alone or after an item with a positive quantity.
OddQuantities ==
    { Item("i4", 0, EmptyDict), Item("i4", 0 - 1, EmptyDict),
      Item("i5", 0 - 2, EmptyDict) }

QuantityCarts ==
    {<<item>> : item \in OddQuantities}
    \cup {<<a, b>> : a \in {RiceOne, EelThree, TofuOne}, b \in OddQuantities}

QuantityRequests ==
    [restaurant_id : {"rB"}, items : QuantityCarts,
     customer_phone : {CustomerPhone}, special_instructions : {<<>>}]

NextQuantities ==
    create_self_service_order_endpoint(QuantityRequests, SelfServiceEnvs)

SpecQuantities == Init /\ [][NextQuantities]_vars

\* Orders with and without special instructions, taken from calls whose
\* lead carries the customer phone, then updated and cancelled by the staff.
NotePayloads == {p \in Payloads : /\ p.model_id = "m1" /\ p.to = ToA
                                  /\ p.executed_actions = <<>>
                                  /\ p.lead_phone = LeadB}

NoteEnvs == {e \in Envs : /\ e.lookup = "ok" /\ e.parser = "ok"
                          /\ e.parsed.total_amount # <<>> /\ e.store = "ok"
                          /\ e.print = "ok" /\ e.sms = "ok"}

NextNotes ==
    \/ synthflow_webhook(NotePayloads, NoteEnvs)
    \/ update_status
    \/ cancel_order_endpoint

SpecNotes == Init /\ [][NextNotes]_vars

\* Two transition requests handled at the same time by two workers, for
\* an order a completed call created (or for an order that does not exist).
FirstParsed == CHOOSE p \in ParsedOrders : Len(p.items) = 2

PendingStore ==
    create_order([orders |-> <<>>, order_items |-> <<>>, history |-> <<>>,
                  prints |-> <<>>, sms |-> <<>>],
                 FirstParsed, "rA", "ok", "ok", "ok").st

InitTransitions ==
    /\ now = 0
    /\ restaurant_cache = EmptyDict
    /\ orders = PendingStore.orders
    /\ order_items = PendingStore.order_items
    /\ history = PendingStore.history
    /\ prints = PendingStore.prints
    /\ sms = PendingStore.sms
    /\ last = NoRequest
    /\ inflight = [w \in Workers |-> Idle]

NextTransitions ==
    \E w \in Workers :
       \/ update_order_status_read(w)
       \/ update_order_status_update(w)
       \/ update_order_status_log(w)
       \/ update_order_status_notify(w)

SpecTransitions == InitTransitions /\ [][NextTransitions]_vars

\* A cancel and a transition of one pending order handled call by call at
\* the same time: the first worker cancels, the second one transitions.
NextRace ==
    \/ cancel_order_read("w1")
    \/ cancel_order_update("w1")
    \/ cancel_order_log("w1")
    \/ cancel_order_notify("w1")
    \/ update_order_status_read("w2")
    \/ update_order_status_update("w2")
    \/ update_order_status_log("w2")
    \/ update_order_status_notify("w2")

SpecRace == InitTransitions /\ [][NextRace]_vars

\* Orders created call by call while the gateways of the adapters take
\* their time.  The steps of the function itself are taken when they can
\* be; the print request ends within its timeout; the SMS gateway (the
\* Twilio client is built without a timeout, sms_service.py:31) may never
\* answer.
NextAdapters ==
    \E w \in Workers :
       \/ create_order_insert(w)
       \/ print_order_call(w)
       \/ print_order_return(w)
       \/ send_order_status_sms_call(w)
       \/ send_order_status_sms_return(w)

SpecAdapters ==
    /\ Init
    /\ [][NextAdapters]_vars
    /\ \A w \in Workers :
          /\ WF_vars(print_order_call(w))
          /\ WF_vars(print_order_return(w))
          /\ WF_vars(send_order_status_sms_call(w))

TypeOK ==
    /\ now \in 0..MaxTicks
    /\ DOMAIN restaurant_cache \subseteq Keys
    /\ Len(orders) <= MaxOrders
    /\ \A i \in 1..Len(orders) : orders[i].status \in ValidStatuses
    /\ DOMAIN inflight = Workers
    /\ \A w \in Workers :
          inflight[w].pc \in {"idle", "update", "log", "notify", "print",
                              "printing", "sms", "sending", "done",
                              "cancel_update", "cancel_log", "cancel_notify"}

(***************************************************************************)
(* Properties                                                              *)
(***************************************************************************)
\* a step of the completed-call handler that changed something
CompletedStep ==
    /\ last'.op = "completed"
    /\ <<restaurant_cache, orders, last>>' # <<restaurant_cache, orders, last>>

\* a step of the inbound-call handler that changed something
InboundStep ==
    /\ last'.op = "inbound"
    /\ <<restaurant_cache, last>>' # <<restaurant_cache, last>>

\* the order lifecycle of the specification: forward along
\* pending -> preparing -> ready -> completed, skipping allowed, and
\* cancelled from every status but completed and cancelled
Rank(status) ==
    CASE status = "pending"   -> 1
      [] status = "preparing" -> 2
      [] status = "ready"     -> 3
      [] status = "completed" -> 4
      [] OTHER                -> 0

Reachable(current, new) ==
    \/ Rank(current) > 0 /\ Rank(new) > 0 /\ Rank(current) < Rank(new)
    \/ new = "cancelled" /\ current \in {"pending", "preparing", "ready"}

\* the restaurant the phone of one fallback source belongs to, <<>> when
\* the source is absent or its phone is no restaurant's
SourceRestaurant(phone) ==
    IF phone = <<>> THEN <<>>
    ELSE get_restaurant_by_phone(format_phone_number(phone))

\* the restaurant of the first source, in the order call.to, get_menu URL,
\* lead.phone_number, whose phone belongs to a restaurant
FirstResolvable(req) ==
    IF SourceRestaurant(req.to) # <<>> THEN SourceRestaurant(req.to)
    ELSE IF SourceRestaurant(ActionPhone(req.executed_actions)) # <<>>
         THEN SourceRestaurant(ActionPhone(req.executed_actions))
         ELSE SourceRestaurant(req.lead_phone)

\* C1: once the status of an order is completed or cancelled, no step
\* changes it.
C1_TerminalStatusKept ==
    [][\A o \in 1..Len(orders) :
          orders[o].status \in {"completed", "cancelled"}
             => orders'[o].status = orders[o].status]_vars

\* C2: a transition request whose new status is not reachable from the
\* status of the order (forward along the chain, or cancelled from a
\* non-terminal status) is rejected and leaves the status as it is.
C2_OnlyReachableTransitions ==
    [][\A o \in 1..Len(orders) :
          (/\ last'.op = "transition"
           /\ last'.order_id = o
           /\ ~Reachable(orders[o].status, last'.arg))
             => last'.code # 200 /\ orders'[o].status = orders[o].status]_vars

\* C3 as stated: of two completed-call events of one key handled one after
\* the other on one cache entry, the first found the entry and consumed it
\* and the second finds no entry.
C3_ExactlyOneConsumes ==
    (last.op = "completed" /\ last.after # "")
       => last.after = "consumed" /\ last.via \in {"fallback", "none"}

\* C3 amended: of two completed-call events of one key handled one after
\* the other, when the first found the entry and created its order the
\* second finds no entry (it runs the fallback); when the first found the
\* entry and failed after that, the entry is still there for the second.
C3_AtMostOneConsumes ==
    last.op = "completed"
       => /\ last.after = "consumed" => last.via \in {"fallback", "none"}
          /\ last.after = "kept" => last.via \in {"cache", "expired"}

\* the second of two events of one key answered "not found" after the
\* first consumed the entry
C3_Witness ==
    /\ last.op = "completed"
    /\ last.after = "consumed"
    /\ last.via = "none"
    /\ last.code = 404

\* C4: an accepted inbound-call event for key k stores its restaurant and
\* the time under k, replacing what was there; a completed-call event for a
\* key whose entry is at most CACHE_EXPIRY_SECONDS old finds its restaurant
\* in that entry, without the fallback.
C4_LiveEntryResolves ==
    [][/\ (InboundStep /\ last'.code = 200)
            => /\ last'.model_id \in DOMAIN restaurant_cache'
               /\ restaurant_cache'[last'.model_id].restaurant_id
                     = last'.restaurant_id
               /\ restaurant_cache'[last'.model_id].timestamp = Time(now)
       /\ \A k \in DOMAIN restaurant_cache :
            (/\ CompletedStep
             /\ last'.model_id = k
             /\ Time(now) - restaurant_cache[k].timestamp <= CACHE_EXPIRY_SECONDS)
               => /\ last'.via = "cache"
                  /\ last'.restaurant_id = restaurant_cache[k].restaurant_id]_vars

\* an order created for the restaurant of the cache entry, the entry being
\* as old as the TTL allows
C4_Witness ==
    /\ last.op = "completed"
    /\ last.via = "cache"
    /\ last.code = 200
    /\ now > 0
    /\ orders[last.order_id].restaurant_id = last.restaurant_id

\* C5: a completed-call event whose key has an expired entry is handled as
\* if the key had no entry: the restaurant comes from the fallback chain or
\* from nowhere, never a rejection for the expired entry.
C5_ExpiredEntryLikeAbsent ==
    [][\A k \in DOMAIN restaurant_cache :
          (/\ CompletedStep
           /\ last'.model_id = k
           /\ IsExpired(restaurant_cache[k], Time(now)))
             => last'.via \in {"fallback", "none"}]_vars

\* C6: on a cache miss the restaurant is the one of the first source, in
\* the order call.to, get_menu URL, lead.phone_number, whose phone belongs
\* to a restaurant; the event is "not found" only when no source has one.
C6_FirstResolvableWins ==
    \A req \in Payloads :
       req.model_id \notin DOMAIN restaurant_cache
          => \A r \in {ResolveRestaurant(restaurant_cache, Time(now), req, "ok")},
                first \in {FirstResolvable(req)} :
                IF first = <<>> THEN r.code = 404
                ELSE r.code = 200 /\ r.restaurant_id = first[1].id

\* C7: a completed-call event whose key has no entry and none of whose
\* fallback sources names a restaurant is answered 404, changes no table,
\* calls no adapter and leaves no entry under its key.
C7_MissWithoutFallback ==
    \A req \in Payloads, env \in WebhookEnvs :
       (req.model_id \notin DOMAIN restaurant_cache
          /\ FirstResolvable(req) = <<>>)
          => \A r \in {handle_completed_call(restaurant_cache, Store, Time(now),
                                              req, env)} :
                /\ r.code = 404
                /\ r.st = Store
                /\ req.model_id \notin DOMAIN r.cache

\* an event answered 404 while orders exist, nothing stored under its key
C7_Witness ==
    /\ last.op = "completed"
    /\ last.code = 404
    /\ last.via = "none"
    /\ last.after = ""
    /\ last.model_id \notin DOMAIN restaurant_cache
    /\ Len(orders) = 1
    /\ Len(prints) = 1

\* C8: after a completed-call event that created its order the cache has
\* no entry under the key of the event.
C8_NoEntryAfterSuccess ==
    (last.op = "completed" /\ last.code = 200)
       => last.model_id \notin DOMAIN restaurant_cache

\* an order created by the fallback path, whose entry is gone again
C8_Witness ==
    /\ last.op = "completed"
    /\ last.code = 200
    /\ last.via = "fallback"
    /\ last.model_id \notin DOMAIN restaurant_cache
    /\ Len(orders) = 1

\* C9: whatever a call of the print adapter or of the SMS adapter does,
\* create, transition and cancel answer and store what they answer and
\* store when the adapters succeed, and create answers 200.
C9_AdapterFailureHarmless ==
    /\ \A req \in StaffPayloads,
          env \in {e \in StaffEnvs : e.print = "ok" /\ e.sms = "ok"} :
          \A a \in {handle_completed_call(restaurant_cache, Store, Time(now),
                                           req, env)} :
             /\ a.code = 200
             /\ \A printOut \in PrintOutcomes, smsOut \in SmsOutcomes :
                   (printOut # "ok" \/ smsOut # "ok")
                      => a = handle_completed_call(
                                 restaurant_cache, Store, Time(now), req,
                                 [env EXCEPT !.print = printOut, !.sms = smsOut])
    /\ \A order_id \in 1..(Len(orders) + 1), status \in ValidStatuses,
          smsOut \in SmsOutcomes :
          update_order_status(Store, order_id, status, "kds", smsOut)
             = update_order_status(Store, order_id, status, "kds", "ok")
    /\ \A order_id \in 1..(Len(orders) + 1), reason \in {"", "sold out"},
          smsOut \in SmsOutcomes :
          cancel_order(Store, order_id, reason, "kds", smsOut)
             = cancel_order(Store, order_id, reason, "kds", "ok")

\* an order created although both adapters raised
C9_Witness ==
    /\ last.op = "completed"
    /\ last.code = 200
    /\ last.print = "raise"
    /\ last.sms = "raise"
    /\ Len(orders) = 1

\* C10: an accepted transition to ready calls the SMS adapter once, with
\* the order and the "ready" template; an accepted transition to preparing
\* or to completed does not call it.
C10_ReadySmsPerTransition ==
    [][(last'.op = "transition" /\ last'.code = 200)
          => /\ last'.arg = "ready"
                  => sms' = Append(sms, [order_id |-> last'.order_id,
                                         status |-> "ready"])
             /\ last'.arg \in {"preparing", "completed"} => sms' = sms]_vars

\* C11: a cancel request for an order whose status is completed or
\* cancelled is answered with a validation error (400) and changes nothing:
\* the row of the order (status, special instructions), the status history
\* and the calls of the SMS adapter stay as they are.
C11_CancelTerminalRejected ==
    [][\A o \in 1..Len(orders) :
          (/\ last'.op = "cancel"
           /\ last'.order_id = o
           /\ orders[o].status \in {"completed", "cancelled"})
             => /\ last'.code = 400
                /\ orders' = orders
                /\ history' = history
                /\ sms' = sms]_vars

\* a cancel request with a reason refused for an order that is cancelled
C11_Witness ==
    /\ last.op = "cancel"
    /\ last.code = 400
    /\ last.arg = "sold out"
    /\ orders[last.order_id].status = "cancelled"

\* C12: a cancel request for an order whose status is pending, preparing
\* or ready is answered 200, sets the status to cancelled, appends one
\* history row (cancelled, the caller's cancelled_by) and calls the SMS
\* adapter once with the cancellation template.
C12_CancelOpenOrder ==
    [][\A o \in 1..Len(orders) :
          (/\ last'.op = "cancel"
           /\ last'.order_id = o
           /\ orders[o].status \in {"pending", "preparing", "ready"})
             => /\ last'.code = 200
                /\ orders'[o].status = "cancelled"
                /\ history' = Append(history,
                                     [order_id |-> o, status |-> "cancelled",
                                      changed_by |-> last'.by])
                /\ sms' = Append(sms, [order_id |-> o,
                                       status |-> "cancelled"])]_vars

\* a pending order cancelled by the admin, the SMS adapter having failed
C12_Witness ==
    /\ last.op = "cancel"
    /\ last.code = 200
    /\ last.by = "admin"
    /\ last.sms = "fail"
    /\ orders[last.order_id].status = "cancelled"
    /\ Len(history) = 2
    /\ history[2] = [order_id |-> last.order_id, status |-> "cancelled",
                     changed_by |-> "admin"]

\* the rows of the status history of order o, oldest first
HistoryOf(h, o) == SelectSeq(h, LAMBDA row : row.order_id = o)

\* C13: after every step each row of orders has a history whose first row
\* is (pending, system) and whose last row carries the status of the order,
\* and the history of an order grows by one row in the steps that write its
\* status (an accepted transition or cancel) and in no other step.
C13_HistoryPerStatusChange ==
    [][\A o \in 1..Len(orders') :
          \A rows \in {HistoryOf(history', o)} :
             /\ rows # <<>>
             /\ rows[1] = [order_id |-> o, status |-> "pending",
                           changed_by |-> "system"]
             /\ rows[Len(rows)].status = orders'[o].status
             /\ o <= Len(orders)
                  => Len(rows) = Len(HistoryOf(history, o))
                        + (IF /\ last'.op \in {"transition", "cancel"}
                              /\ last'.order_id = o
                              /\ last'.code = 200
                           THEN 1 ELSE 0)]_vars

\* the rows of the table order_items that belong to order o, in the order
\* of their insertion
ItemsOf(rows, o) == SelectSeq(rows, LAMBDA row : row.order_id = o)

\* no available menu item of the restaurant matches the name, exactly or as
\* a substring in either direction
NoMenuEntry(restaurant_id, item_name) ==
    \A i \in 1..Len(MenuItems) :
       (MenuItems[i].restaurant_id = restaurant_id /\ MenuItems[i].is_available)
          => LET n == Lower(Strip(MenuItems[i].name))
                 t == Lower(Strip(item_name))
             IN  ~(Contains(n, t) \/ Contains(t, n))

Available(restaurant_id) ==
    {i \in 1..Len(MenuItems) : /\ MenuItems[i].restaurant_id = restaurant_id
                               /\ MenuItems[i].is_available}

Least(S) == CHOOSE i \in S : \A j \in S : i <= j

\* fuzzyPriceByName of the specification, comparing names as Norm leaves
\* them: the price of an item whose name equals the raw name if there is
\* one, else of the first item whose name contains the raw name or is
\* contained in it, else NotFound (<<>>)
FuzzyPriceByName(restaurant_id, raw, Norm(_)) ==
    LET exact == {i \in Available(restaurant_id) :
                     Norm(MenuItems[i].name) = Norm(raw)}
        partial == {i \in Available(restaurant_id) :
                       \/ Contains(Norm(MenuItems[i].name), Norm(raw))
                       \/ Contains(Norm(raw), Norm(MenuItems[i].name))}
    IN  IF exact # {} THEN MenuItems[Least(exact)].price
        ELSE IF partial # {} THEN MenuItems[Least(partial)].price
        ELSE <<>>

Trimmed(s) == Lower(Strip(s))

\* the price persisted for the i-th item of the order a completed call
\* created
PersistedPrice(i) == ItemsOf(order_items', last'.order_id)[i].price

\* a completed call created an order whose i-th item came without a price
LooksUp(i) ==
    /\ last'.op = "completed" /\ last'.code = 200
    /\ i \in 1..Len(last'.items)
    /\ last'.items[i].price = <<>>

C20_OneCanonicalForm ==
    [][\A n \in NanpNumbers :
          (/\ last'.op = "completed" /\ last'.code = 200
           /\ last'.phone \in Spellings(n))
             => orders'[last'.order_id].customer_phone = <<"+", "1">> \o n]_vars

\* two orders of the same customer, the first phoned in as "646 555 0123",
\* the second as "+1 (646) 555-0123", carry the same customer phone
C20_Witness ==
    /\ Len(orders) = 2
    /\ last.op = "completed" /\ last.code = 200 /\ last.order_id = 2
    /\ last.phone = <<"+", "1", " ", "(", "6", "4", "6", ")", " ", "5", "5", "5",
                      "-", "0", "1", "2", "3">>
    /\ orders[1].customer_phone = orders[2].customer_phone
    /\ orders[2].customer_phone = <<"+", "1">> \o CustomerPhone

\* the float sum of price * quantity over the rows that have a price
RECURSIVE SubtotalOf(_)
SubtotalOf(rows) ==
    IF rows = <<>> THEN FloatOfInt(0)
    ELSE IF rows[Len(rows)].price = <<>>
         THEN SubtotalOf(SubSeq(rows, 1, Len(rows) - 1))
         ELSE FloatAdd(SubtotalOf(SubSeq(rows, 1, Len(rows) - 1)),
                       FloatMul(FloatOfDecimal(rows[Len(rows)].price[1], 100),
                                FloatOfInt(rows[Len(rows)].quantity)))

\* C14: the total_amount of an order a completed call creates is the sum
\* of price * quantity over its items with a price, plus 7.25% tax, rounded
\* to two decimals (in cents), whatever total the parsed transcript carries.
C14_VoiceTotalFromMenu ==
    [][(last'.op = "completed" /\ last'.code = 200)
          => orders'[last'.order_id].total_amount =
                <<TotalAmount(SubtotalOf(ItemsOf(order_items', last'.order_id)))>>]_vars

\* two items of requests are the same purchase: they differ at most in the
\* price the client added
SamePurchase(a, b) ==
    /\ Len(a) = Len(b)
    /\ \A i \in 1..Len(a) :
          /\ a[i].menu_item_id = b[i].menu_item_id
          /\ a[i].quantity = b[i].quantity
          /\ a[i].modifier_selections = b[i].modifier_selections

\* C15: what a self-service request persists (the order with its
\* total_amount, the rows of its items with their unit prices) and its
\* status code are those of every request for the same purchase, whatever
\* prices the client added to the items.
C15_ClientPriceIgnored ==
    [][last'.op = "self_service"
          => \A request \in SelfServiceRequests :
                (/\ SamePurchase(request.items, last'.items)
                 /\ request.restaurant_id = last'.restaurant_id
                 /\ request.customer_phone = last'.phone)
                   => \A r \in {create_self_service_order(
                                    Store, SelfServiceOrderData(request),
                                    request.restaurant_id, "ok", "ok", "ok")} :
                         /\ r.st.orders = orders'
                         /\ r.st.order_items = order_items'
                         /\ StatusCode(r.exc) = last'.code]_vars

\* a large tofu ordered with a client price of one cent is persisted at
\* 6.10, total 6.54
C15_Witness ==
    /\ last.op = "self_service" /\ last.code = 200
    /\ last.items = <<WithClientPrice(TofuLarge)>>
    /\ ItemsOf(order_items, last.order_id)[1].price = <<610>>
    /\ orders[last.order_id].total_amount = <<654>>

RECURSIVE SumSeq(_)
SumSeq(ns) == IF ns = <<>> THEN 0 ELSE Head(ns) + SumSeq(Tail(ns))

\* the adjustment of the option of a modifier with that name, 0 when the
\* modifier has no such option
AdjustmentOf(modifier, option_name) ==
    LET named == {k \in 1..Len(modifier.options) :
                     modifier.options[k].name = option_name}
    IN  IF named = {} THEN 0
        ELSE modifier.options[Least(named)].price_adjustment

\* what the selections of an item add to its base price, in cents: for a
\* single-select modifier with a selection the adjustment of the chosen
\* option, for a multi-select one the sum over the chosen options
ExpectedAdjustment(item) ==
    LET modifiers == MenuModifiers(item.menu_item_id)
        sel == item.modifier_selections
        part(m) ==
            IF m.name \notin DOMAIN sel THEN 0
            ELSE IF m.type = "single" /\ sel[m.name].type = "str"
                 THEN AdjustmentOf(m, sel[m.name].value[1])
            ELSE IF m.type = "multiple" /\ sel[m.name].type = "list"
                 THEN SumSeq([k \in 1..Len(sel[m.name].value) |->
                                AdjustmentOf(m, sel[m.name].value[k])])
            ELSE 0
    IN  SumSeq([k \in 1..Len(modifiers) |-> part(modifiers[k])])

BasePrice(item) ==
    (CHOOSE r \in {MenuItems[k] : k \in 1..Len(MenuItems)} :
        r.id = item.menu_item_id).price[1]

\* C17: the unit price persisted for an item of a self-service order is the
\* base price of the menu item plus the adjustment of the chosen option of
\* each single-select modifier and of every chosen option of each
\* multi-select modifier; a modifier without selection, an unknown modifier
\* and an unknown option add nothing, and the order is created.
C17_UnitPriceWithModifiers ==
    [][(last'.op = "self_service" /\ last'.code = 200)
          => \A rows \in {ItemsOf(order_items', last'.order_id)} :
                /\ Len(rows) = Len(last'.items)
                /\ \A i \in 1..Len(rows) :
                      rows[i].price = <<BasePrice(last'.items[i])
                                          + ExpectedAdjustment(last'.items[i])>>]_vars

\* two small tofu with sauce and wasabi: 5.10 - 0.50 + 0.25 + 0.75
C17_Witness ==
    /\ last.op = "self_service" /\ last.code = 200
    /\ last.items = <<TofuSmallBoth>>
    /\ ExpectedAdjustment(TofuSmallBoth) = 50
    /\ ItemsOf(order_items, last.order_id)[1].price = <<560>>

\* a tofu with an option Size does not have and a modifier the menu item
\* does not declare is persisted at the base price
C17_WitnessUnknown ==
    /\ last.op = "self_service" /\ last.code = 200
    /\ last.items = <<TofuUnknown>>
    /\ ItemsOf(order_items, last.order_id)[1].price = <<510>>

\* the sum of unit price * quantity over the rows, in cents
SubtotalCents(rows) ==
    SumSeq([i \in 1..Len(rows) |-> rows[i].price[1] * rows[i].quantity])

\* the total_amount the function persists for the items
TotalOf(items) ==
    TotalAmount(PriceItems([i \in 1..Len(items) |-> SelfServiceOrderItem(items[i])],
                           FloatOfInt(0), <<>>).subtotal)

\* C18: the total_amount of a self-service order is the same for every
\* order of its items, and it is the subtotal plus the tax
\* round(subtotal * 0.0725, 2), to the cent.
C18_TotalsOrderFree ==
    [][(last'.op = "self_service" /\ last'.code = 200)
          => \A rows \in {ItemsOf(order_items', last'.order_id)} :
                /\ \A items \in Orderings(last'.items) :
                      orders'[last'.order_id].total_amount = <<TotalOf(items)>>
                /\ orders'[last'.order_id].total_amount =
                      <<SubtotalCents(rows)
                          + Round2(FloatMul(FloatOfDecimal(SubtotalCents(rows), 100),
                                            TAX_RATE))>>]_vars


\* the input of format_phone_number after strip() and the removal of spaces,
\* dashes, parentheses and a leading plus sign
CleanedInput(raw) ==
    LET cleaned == RemoveChars(Strip(raw), {" ", "-", "(", ")"})
    IN  IF StartsWith(cleaned, <<"+">>) /\ ~StartsWith(cleaned, <<"+", "1">>)
        THEN DropFirst(cleaned, 1) ELSE cleaned

\* C21: the customer phone persisted for a completed call that carried a
\* non-empty phone starts with +1 unless it is empty, and when the phone has
\* fewer than ten digits it is the cleaned input with +1 put in front.
C21_AlwaysPlusOne ==
    [][(last'.op = "completed" /\ last'.code = 200 /\ last'.phone # <<>>)
          => \A result \in {orders'[last'.order_id].customer_phone} :
                /\ result # <<>> => StartsWith(result, <<"+", "1">>)
                /\ (/\ Len(DigitsOnly(CleanedInput(last'.phone))) < 10
                    /\ ~StartsWith(CleanedInput(last'.phone), <<"+", "1">>))
                      => result = <<"+", "1">> \o CleanedInput(last'.phone)]_vars


\* C22 as stated: after a completed-call event no expired entry remains in
\* the cache, whichever key the event carried and whether it hit or missed.
C22_NoExpiredAfterLookup ==
    [][CompletedStep
          => \A k \in DOMAIN restaurant_cache' :
                ~IsExpired(restaurant_cache'[k], Time(now))]_vars

\* C22, amended: a completed-call event leaves no expired entry under its
\* own key; one that misses the cache leaves no expired entry under any
\* key; one that finds an entry under its key, live or expired, leaves the
\* entries of the other keys as they were.
C22_SweptOnMiss ==
    [][CompletedStep
          => /\ last'.model_id \in DOMAIN restaurant_cache'
                  => ~IsExpired(restaurant_cache'[last'.model_id], Time(now))
             /\ last'.via \in {"fallback", "none"}
                  => \A k \in DOMAIN restaurant_cache' :
                        ~IsExpired(restaurant_cache'[k], Time(now))
             /\ last'.via \in {"cache", "expired"}
                  => \A k \in DOMAIN restaurant_cache \ {last'.model_id} :
                        /\ k \in DOMAIN restaurant_cache'
                        /\ restaurant_cache'[k] = restaurant_cache[k]]_vars

\* a completed-call event that missed the cache, found no restaurant and
\* removed the expired entry of another key, leaving the cache empty
C22_Witness ==
    /\ last.op = "completed"
    /\ last.via = "none"
    /\ last.swept # {}
    /\ last.model_id \notin last.swept
    /\ restaurant_cache = EmptyDict


\* C23: a completed-call event that finds its restaurant by the fallback
\* and then fails (parser, validation or store) leaves under its key an
\* entry with that restaurant and the time of the event; the next
\* completed-call event of the key, while the entry is not expired, finds
\* the same restaurant in the cache.
C23_FallbackWrittenBeforeParse ==
    [][/\ (CompletedStep /\ last'.via = "fallback" /\ last'.code # 200)
            => /\ last'.model_id \in DOMAIN restaurant_cache'
               /\ restaurant_cache'[last'.model_id].restaurant_id
                     = last'.restaurant_id
               /\ restaurant_cache'[last'.model_id].timestamp = Time(now)
       /\ (/\ CompletedStep
           /\ last.op = "completed" /\ last.via = "fallback" /\ last.code # 200
           /\ last'.model_id = last.model_id
           /\ last.model_id \in DOMAIN restaurant_cache
           /\ ~IsExpired(restaurant_cache[last.model_id], Time(now)))
            => /\ last'.via = "cache"
               /\ last'.restaurant_id = last.restaurant_id]_vars

\* the first order row was left without items by a creation that failed,
\* and a later event of the call created the second order for the same
\* restaurant from the cache entry
C23_Witness ==
    /\ Len(orders) = 2
    /\ ItemsOf(order_items, 1) = <<>>
    /\ last.op = "completed" /\ last.via = "cache" /\ last.code = 200
    /\ last.order_id = 2
    /\ now > 0
    /\ orders[1].restaurant_id = last.restaurant_id
    /\ orders[2].restaurant_id = last.restaurant_id


\* C24: a transition request whose target status is not one of pending,
\* preparing, ready, completed, cancelled is answered with a validation
\* error (400), whether or not the order exists, and changes no table and
\* calls no adapter.
C24_InvalidStatusRejected ==
    [][(last'.op = "transition" /\ last'.arg \notin ValidStatuses)
          => /\ last'.code = 400
             /\ last'.sms = ""
             /\ <<orders, order_items, history, prints, sms>>'
                   = <<orders, order_items, history, prints, sms>>]_vars

\* the status "done" refused for an order id that has no row, while
\* another order exists
C24_Witness ==
    /\ last.op = "transition"
    /\ last.arg = "done"
    /\ last.code = 400
    /\ Len(orders) = 1
    /\ last.order_id = 2


\* C25: a transition request with a valid status, or a cancel request, for
\* an order id that has no row is answered 404 and changes no table and
\* calls no adapter.
C25_MissingOrderNotFound ==
    [][(/\ last'.op \in {"transition", "cancel"}
        /\ last'.op = "transition" => last'.arg \in ValidStatuses
        /\ last'.order_id \notin 1..Len(orders))
          => /\ last'.code = 404
             /\ <<orders, order_items, history, prints, sms>>'
                   = <<orders, order_items, history, prints, sms>>]_vars


\* C30: every step that changes the status of an order to cancelled,
\* whether a cancel request or a transition request, calls the SMS adapter
\* exactly once, for that order and with the cancellation template.
C30_CancelledAlwaysNotifies ==
    [][\A o \in 1..Len(orders) :
          (orders[o].status # "cancelled" /\ orders'[o].status = "cancelled")
             => sms' = Append(sms, [order_id |-> o, status |-> "cancelled"])]_vars


\* C28: every row of order_items has a quantity of at least one.
C28_QuantityAtLeastOne ==
    \A i \in 1..Len(order_items) : order_items[i].quantity >= 1


\* C27: when a creation request leaves an order row without its items,
\* the request is answered 500, the row stays, and logger.error wrote a
\* record that names the order.
C27_ItemsFailureLogged ==
    [][(/\ last'.op \in {"completed", "self_service"}
        /\ Len(orders') = Len(orders) + 1
        /\ ItemsOf(order_items', Len(orders')) = <<>>)
          => /\ last'.code = 500
             /\ \E i \in 1..Len(last'.logged) :
                   last'.logged[i].order_id = Len(orders')]_vars


\* C26: when two transition requests for the same order, handled at the
\* same time, are both answered 200, the history of the order holds, after
\* the row of its creation, one row for each of the two in either order,
\* and the status of the order is the status one of them asked for.
C26_ConcurrentTransitionsKept ==
    \A w1, w2 \in Workers :
       (/\ w1 # w2
        /\ inflight[w1].pc = "done" /\ inflight[w1].code = 200
        /\ inflight[w2].pc = "done" /\ inflight[w2].code = 200
        /\ inflight[w1].order_id = inflight[w2].order_id)
          => \A rows \in {HistoryOf(history, inflight[w1].order_id)} :
                /\ Len(rows) = 3
                /\ <<rows[2].status, rows[3].status>>
                      \in {<<inflight[w1].new_status, inflight[w2].new_status>>,
                           <<inflight[w2].new_status, inflight[w1].new_status>>}
                /\ rows[2].changed_by = "kds" /\ rows[3].changed_by = "kds"
                /\ orders[inflight[w1].order_id].status
                      \in {inflight[w1].new_status, inflight[w2].new_status}

\* both requests were answered 200, one asked for ready and the other for
\* preparing, and the status of the order is the one whose history row
\* came first: the last row of the history names the other status
C26_Witness ==
    /\ inflight["w1"].pc = "done" /\ inflight["w1"].code = 200
    /\ inflight["w2"].pc = "done" /\ inflight["w2"].code = 200
    /\ inflight["w1"].order_id = 1 /\ inflight["w2"].order_id = 1
    /\ inflight["w1"].new_status = "ready"
    /\ inflight["w2"].new_status = "preparing"
    /\ Len(history) = 3
    /\ history[3].status = "ready"
    /\ orders[1].status = "preparing"


\* C29: once create_order has persisted an order it returns to its caller,
\* whether or not the gateways of the print adapter and of the SMS adapter
\* ever answer the calls made for the order.
C29_CreateReturnsWhileInFlight ==
    \A w \in Workers :
       (inflight[w].pc = "print") ~> (inflight[w].pc = "done")


\* C31: every row of order_items written for a completed call carries the
\* price the menu lookup gives for its name at the restaurant of the order
\* (NULL when the lookup finds nothing), whatever price the parsed item
\* carried.
C31_VoicePriceFromMenuOnly ==
    [][(last'.op = "completed" /\ last'.code = 200)
          => \A rows \in {ItemsOf(order_items', last'.order_id)} :
                \A i \in 1..Len(rows) :
                   rows[i].price = get_menu_item_price(last'.restaurant_id,
                                                       rows[i].item_name)]_vars

\* C32: a transition or cancel request leaves the rows of order_items, and
\* of every order the total_amount, the restaurant and the customer phone,
\* as they were; a transition leaves special_instructions as they were; an
\* accepted cancel with a reason appends the cancellation note after the
\* instructions of its order, and every other cancel leaves them as they
\* were.
C32_TotalsAndItemsUntouched ==
    [][(last'.op \in {"transition", "cancel"})
          => /\ order_items' = order_items
             /\ Len(orders') = Len(orders)
             /\ \A o \in 1..Len(orders) :
                   /\ orders'[o].total_amount = orders[o].total_amount
                   /\ orders'[o].restaurant_id = orders[o].restaurant_id
                   /\ orders'[o].customer_phone = orders[o].customer_phone
                   /\ orders'[o].special_instructions =
                         IF /\ last'.op = "cancel" /\ last'.code = 200
                            /\ last'.order_id = o /\ last'.arg # ""
                         THEN orders[o].special_instructions
                                 \o <<CancellationNote(last'.arg)>>
                         ELSE orders[o].special_instructions]_vars

\* an order taken with the instruction "no onions" was cancelled with the
\* reason "sold out": both lines are in its special instructions, and its
\* total and its item are those of its creation
C32_Witness ==
    /\ last.op = "cancel" /\ last.code = 200 /\ last.arg = "sold out"
    /\ orders[last.order_id].status = "cancelled"
    /\ orders[last.order_id].special_instructions
          = <<"no onions", CancellationNote("sold out")>>
    /\ orders[last.order_id].total_amount = <<999>>
    /\ Len(ItemsOf(order_items, last.order_id)) = 1

C35_RejectedInboundKeepsCache ==
    [][(now' = now /\ last'.op = "inbound" /\ last'.code # 200)
          => restaurant_cache' = restaurant_cache]_vars

\* an inbound-call event for a number no restaurant has was answered 404
\* while an older entry of its key, written before the clock advanced, is
\* still in the cache
C35_Witness ==
    /\ last.op = "inbound" /\ last.code = 404
    /\ last.model_id \in DOMAIN restaurant_cache
    /\ restaurant_cache[last.model_id].restaurant_id # ""
    /\ restaurant_cache[last.model_id].timestamp < Time(now)

\* C36: over the lifetime of an order at most one SMS with the "ready"
\* template is sent for it, whatever transitions and cancels were called.
C36_ReadySmsAtMostOnce ==
    \A o \in 1..Len(orders) :
       Len(SelectSeq(sms, LAMBDA m : m.order_id = o /\ m.status = "ready")) <= 1

\* C38: whenever no transition of an order is in progress (every request is
\* either not started or answered), the status of the row appended last to
\* the history of the order is the status of the order.
C38_LastHistoryRowIsStatus ==
    (\A w \in Workers : inflight[w].pc \in {"idle", "done"})
       => \A o \in 1..Len(orders) :
             \A rows \in {HistoryOf(history, o)} :
                rows # <<>> => rows[Len(rows)].status = orders[o].status

\* C37: a cancel never overwrites a completed order, also when a
\* transition to completed is handled at the same time: once the cancel and
\* the transition of one order are both answered and the transition set the
\* order to completed, the order is not cancelled.  (The cancel refuses an
\* order it reads as completed, so the order can only be cancelled here
\* when the transition wrote between the read and the write of the cancel.)
C37_CancelNeverOverwritesCompleted ==
    (/\ inflight["w1"].pc = "done" /\ inflight["w2"].pc = "done"
     /\ inflight["w1"].order_id = inflight["w2"].order_id
     /\ inflight["w2"].code = 200 /\ inflight["w2"].new_status = "completed")
       => orders[inflight["w2"].order_id].status # "cancelled"

\* C39: a self-service request with no item, with an empty customer phone,
\* or with an item that has no menu_item_id or names an unknown or an
\* unavailable menu item is answered with a validation error (400) and
\* writes nothing: no order row, no item, no history row, no print job and
\* no SMS, also when the items before the bad one are valid.
C39_ValidatedBeforeAnyWrite ==
    [][(last'.op = "self_service"
         /\ \/ last'.items = <<>>
            \/ last'.phone = <<>>
            \/ \E i \in 1..Len(last'.items) :
                  \/ last'.items[i].menu_item_id = ""
                  \/ get_menu_item(last'.items[i].menu_item_id) = <<>>
                  \/ ~get_menu_item(last'.items[i].menu_item_id)[1].is_available)
          => /\ last'.code = 400 /\ last'.order_id = 0
             /\ UNCHANGED <<orders, order_items, history, prints, sms>>]_vars

\* a request whose second item names an unavailable menu item, after a
\* valid first item, was refused while an earlier order is in the store:
\* the store holds that order alone
C39_Witness ==
    /\ last.op = "self_service" /\ last.code = 400
    /\ Len(last.items) = 2
    /\ last.items[1] = RiceOne
    /\ last.items[2].menu_item_id = "i7"
    /\ last.phone # <<>>
    /\ Len(orders) = 1 /\ Len(history) = 1 /\ prints = <<1>>
    /\ ItemsOf(order_items, 1) # <<>>
====
